---- MODULE Spec2Model ----
(***************************************************************************)
(* State-machine model of the forensic summarizer's document ledger, its   *)
(* manifest persistence and the summarization orchestration driven by the  *)
(* DossierDocumentsWindow / DocumentOverviewWindow / SummarizationWorker.  *)
(***************************************************************************)
EXTENDS Integers, Sequences, FiniteSets, TLC

\* ---------------------------------------------------------------- bounds
NDocs == 2          \* documents added to one case
MaxWindows == 2     \* DossierDocumentsWindow instances of a case, a restart's window counted
MaxCommits == 2     \* committing clicks on "Archief (case) aanmaken"
MaxExits == 1       \* process terminations (crash, kill, last window closed)
MaxTimers == 1      \* pending QTimer.singleShot callbacks of one window
MaxStaleDownloads == 1  \* ModelDownloadWorker threads outliving their ModelCheckWindow

\* ------------------------------------------------- backend/state.py constants
DOC_STATUS_EXTRACTED == "extracted"
DOC_STATUS_DETECTED == "detected"
DOC_STATUS_QUEUED == "queued"
DOC_STATUS_SUMMARIZING == "summarizing"
DOC_STATUS_SUMMARIZED == "summarized"
DOC_STATUS_ERROR == "error"
DOC_STATUS_SKIPPED == "skipped"

DocStatuses ==
    { DOC_STATUS_EXTRACTED, DOC_STATUS_DETECTED, DOC_STATUS_QUEUED,
      DOC_STATUS_SUMMARIZING, DOC_STATUS_SUMMARIZED, DOC_STATUS_ERROR,
      DOC_STATUS_SKIPPED }

\* ------------------------------------------------------------ file paths
\* A path is a directory and a file name; a name is a sequence of characters.
\* WalkOrder lists the files of an extracted archive in filesystem-walk
\* order: x/._c.p is an AppleDouble artifact, x/a.p and y/a.t share the stem
\* "a". A case's documents are a run of consecutive files of the walk.
WalkOrder ==
    << [dir |-> "x", name |-> <<".", "_", "c", ".", "p">>],
       [dir |-> "x", name |-> <<"a", ".", "p">>],
       [dir |-> "x", name |-> <<"b", ".", "p">>],
       [dir |-> "y", name |-> <<"a", ".", "t">>] >>

WalkIndex(p) == CHOOSE i \in DOMAIN WalkOrder : WalkOrder[i] = p

SourcePaths == { WalkOrder[i] : i \in DOMAIN WalkOrder }

\* Index of the last "." of a name, 0 when there is none.
LastDot(name) ==
    LET dots == { i \in 1..Len(name) : name[i] = "." }
    IN  IF dots = {} THEN 0 ELSE CHOOSE i \in dots : \A j \in dots : j <= i

\* pathlib's Path(p).stem: the name without its last suffix; a leading or a
\* trailing dot starts no suffix.
PathStem(p) ==
    LET i == LastDot(p.name)
    IN  IF i > 1 /\ i < Len(p.name) THEN SubSeq(p.name, 1, i - 1) ELSE p.name

\* _is_macos_zip_artifact(path)
is_macos_zip_artifact(p) ==
    \/ p.dir = "__MACOSX"
    \/ p.name = <<".", "D", "S", "_", "S", "t", "o", "r", "e">>
    \/ (Len(p.name) >= 2 /\ p.name[1] = "." /\ p.name[2] = "_")

\* DossierDocumentsWindow._summary_paths_for_doc: both artifact locations are
\* derived from the stem of the source path alone.
summary_paths_for_doc(doc) ==
    [txt |-> [stem |-> PathStem(doc.source_path), ext |-> "txt"],
     json |-> [stem |-> PathStem(doc.source_path), ext |-> "json"]]

\* ------------------------------------------------------------------ state
VARIABLES
    proc,               \* "running" | "exited": the application process
    screen,             \* the visible window: "model_check", "ingest", "overview", "documents", "report"
    model_present,      \* the model file exists at MODEL_PATH
    model_status,       \* state.model.status of the visible ModelCheckWindow's AppState
    stale_downloads,    \* ModelDownloadWorker threads still running for closed ModelCheckWindows
    documents,          \* AppState.documents (in memory), in insertion order
    archive_created_at, \* AppState.case.archive_created_at: 0 is None
    manifest,           \* manifest.json on disk
    summary_files,      \* files present in the case's summaries directory
    windows,            \* DossierDocumentsWindow objects of this process, oldest first
    lock,               \* _LLM_JOB_LOCK: 0 is free, else the window whose worker holds it
    commits,            \* committing clicks so far
    exits,              \* process terminations so far
    ever_summarized,    \* history: doc ids that have held status summarized
    forced_from_queued, \* history: doc ids normalized while queued with summary files on disk
    resume_reset,       \* history: doc ids persisted as summarizing at the last restart, until the next claim
    summary_writers,    \* history: doc ids whose worker has written its summary files
    fn_args,            \* the function under call and its arguments, outside the window flow
    fn_result,          \* what that call returned
    effective_ctx,      \* summarizer._effective_ctx: the context budget, kept between calls
    call                \* the summarize_document call in progress and where it stands

\* The model file and its download threads.
startup == << model_present, model_status, stale_downloads >>

\* The history variables.
history == << ever_summarized, forced_from_queued, resume_reset, summary_writers >>

\* A call of one of the backend's functions on its own.
engine == << effective_ctx, call >>

pure == << fn_args, fn_result, engine >>

\* No function is under call.
NoCall == [fn |-> "none"]

N_CTX == 2048

MAX_NEW_TOKENS == 180

\* The module as imported: _effective_ctx = int(N_CTX).
InitEngine ==
    /\ effective_ctx = N_CTX
    /\ call = [pc |-> "idle", target_ctx |-> N_CTX, chunks |-> 0, partials |-> 0,
               grouped |-> 0, max_new |-> MAX_NEW_TOKENS, err |-> << >>, calls |-> 0]

\* The application: everything but a function call on its own.
program ==
    << proc, screen, documents, archive_created_at, manifest, summary_files,
       windows, lock, commits, exits, startup, history >>

vars == << program, pure >>

NoManifest == [kind |-> "none"]
PartialManifest == [kind |-> "partial"]

\* AppState.to_dict as far as the ledger goes: a complete snapshot.
to_dict(docs, created) ==
    [kind |-> "full", documents |-> docs, archive_created_at |-> created]

NoWorker == [pc |-> "none", doc_id |-> 0, sig |-> "none"]

\* A worker at its emit: run() is about to return and reads its file path no
\* more; only the queued signal matters from here on.
ReturningWorker(sig) ==
    [pc |-> "returning", doc_id |-> 0, sig |-> sig]

\* A worker whose run() has returned.
ExitedWorker(sig) ==
    [pc |-> "exited", doc_id |-> 0, sig |-> sig]

\* QThread.isRunning(): run() has been entered and has not returned yet.
isRunning(worker) == worker.pc \notin {"none", "exited"}

DocIds(docs) == { docs[i].doc_id : i \in DOMAIN docs }

DocById(docs, id) == docs[CHOOSE i \in DOMAIN docs : docs[i].doc_id = id]

IndexOf(docs, id) == CHOOSE i \in DOMAIN docs : docs[i].doc_id = id

WithStatus(docs, s) == { docs[i].doc_id : i \in { j \in DOMAIN docs : docs[j].status = s } }

\* A process whose model is in place, at the ZIP upload screen of a new case.
Init ==
    /\ proc = "running"
    /\ screen = "ingest"
    /\ model_present = TRUE
    /\ model_status = "ready"
    /\ stale_downloads = 0
    /\ documents = << >>
    /\ archive_created_at = 0
    /\ manifest = NoManifest
    /\ summary_files = {}
    /\ windows = << >>
    /\ lock = 0
    /\ commits = 0
    /\ exits = 0
    /\ ever_summarized = {}
    /\ forced_from_queued = {}
    /\ resume_reset = {}
    /\ summary_writers = {}
    /\ fn_args = NoCall
    /\ fn_result = NoCall
    /\ InitEngine

\* ------------------------------------------------------ backend/state.py
\* AppState.add_document: a new record with a fresh id, status detected and
\* the caller's selected flag, appended to the ledger.
add_document(docs, source_path, selected) ==
    Append(docs,
        [doc_id |-> Len(docs) + 1,
         source_path |-> source_path,
         selected |-> selected,
         status |-> DOC_STATUS_DETECTED,
         error_message |-> ""])

\* AppState.mark_archive_created_and_queue_selected, the loop over documents.
mark_archive_created_and_queue_selected(docs) ==
    [i \in DOMAIN docs |->
        IF docs[i].selected
        THEN [docs[i] EXCEPT !.status = DOC_STATUS_QUEUED]
        ELSE [docs[i] EXCEPT !.status = DOC_STATUS_SKIPPED]]

\* AppState.from_dict / load_manifest as far as the ledger goes.
from_dict(m) == [documents |-> m.documents, archive_created_at |-> m.archive_created_at]

\* ------------------------------- UI/dossier_documents_window.py: normalize
\* normalize_branch without the rule that trusts summary files on disk.
normalize_branch_ignoring_disk(doc, files) ==
    IF ~doc.selected /\ doc.status # DOC_STATUS_SKIPPED THEN "skip"
    ELSE IF doc.selected /\ doc.status = DOC_STATUS_SUMMARIZING THEN "requeue"
    ELSE IF doc.selected /\ doc.status \in {DOC_STATUS_DETECTED, DOC_STATUS_EXTRACTED} THEN "queue"
    ELSE "none"

\* normalize_branch with the summarizing rule tried before the disk rule.
normalize_branch_requeue_first(doc, files) ==
    LET paths == summary_paths_for_doc(doc)
        has_any == paths.txt \in files \/ paths.json \in files
    IN  IF ~doc.selected /\ doc.status # DOC_STATUS_SKIPPED THEN "skip"
        ELSE IF doc.selected /\ doc.status = DOC_STATUS_SUMMARIZING THEN "requeue"
        ELSE IF doc.selected /\ has_any /\ doc.status # DOC_STATUS_SUMMARIZED THEN "summarized"
        ELSE IF doc.selected /\ doc.status \in {DOC_STATUS_DETECTED, DOC_STATUS_EXTRACTED} THEN "queue"
        ELSE "none"

\* normalize_branch that also takes a selected document in error for an
\* interrupted one and queues it again.
normalize_branch_retrying_errors(doc, files) ==
    LET paths == summary_paths_for_doc(doc)
        has_any == paths.txt \in files \/ paths.json \in files
    IN  IF ~doc.selected /\ doc.status # DOC_STATUS_SKIPPED THEN "skip"
        ELSE IF doc.selected /\ has_any /\ doc.status # DOC_STATUS_SUMMARIZED THEN "summarized"
        ELSE IF doc.selected /\ doc.status \in {DOC_STATUS_SUMMARIZING, DOC_STATUS_ERROR}
             THEN "requeue"
        ELSE IF doc.selected /\ doc.status \in {DOC_STATUS_DETECTED, DOC_STATUS_EXTRACTED} THEN "queue"
        ELSE "none"

\* Which branch of the loop body of _normalize_resume_state a document takes.
normalize_branch(doc, files) ==
    LET paths == summary_paths_for_doc(doc)
        has_any == paths.txt \in files \/ paths.json \in files
    IN  IF ~doc.selected /\ doc.status # DOC_STATUS_SKIPPED THEN "skip"
        ELSE IF doc.selected /\ has_any /\ doc.status # DOC_STATUS_SUMMARIZED THEN "summarized"
        ELSE IF doc.selected /\ doc.status = DOC_STATUS_SUMMARIZING THEN "requeue"
        ELSE IF doc.selected /\ doc.status \in {DOC_STATUS_DETECTED, DOC_STATUS_EXTRACTED} THEN "queue"
        ELSE "none"

\* normalize_doc whose disk rule clears the error message and forgets the status.
normalize_doc_keeping_status(doc, files) ==
    LET b == normalize_branch(doc, files)
    IN  CASE b = "skip" -> [doc EXCEPT !.status = DOC_STATUS_SKIPPED]
          [] b = "summarized" -> [doc EXCEPT !.error_message = ""]
          [] b = "requeue" -> [doc EXCEPT !.status = DOC_STATUS_QUEUED, !.error_message = ""]
          [] b = "queue" -> [doc EXCEPT !.status = DOC_STATUS_QUEUED]
          [] OTHER -> doc

\* What the loop body of _normalize_resume_state makes of a document.
normalize_doc(doc, files) ==
    LET b == normalize_branch(doc, files)
    IN  CASE b = "skip" -> [doc EXCEPT !.status = DOC_STATUS_SKIPPED]
          [] b = "summarized" -> [doc EXCEPT !.status = DOC_STATUS_SUMMARIZED, !.error_message = ""]
          [] b = "requeue" -> [doc EXCEPT !.status = DOC_STATUS_QUEUED, !.error_message = ""]
          [] b = "queue" -> [doc EXCEPT !.status = DOC_STATUS_QUEUED]
          [] OTHER -> doc

\* The ledger after _normalize_resume_state.
normalize_resume_state(docs, files) ==
    [i \in DOMAIN docs |-> normalize_doc(docs[i], files)]

\* The `changed` flag of _normalize_resume_state: it saves the manifest iff set.
normalize_changed(docs, files) ==
    \E i \in DOMAIN docs : normalize_branch(docs[i], files) # "none"

\* A summary file of the document is on disk.
HasSummaryFile(doc, files) ==
    summary_paths_for_doc(doc).txt \in files \/ summary_paths_for_doc(doc).json \in files

\* The selected documents a normalization meets as queued with summary files
\* on disk, and those it meets as summarizing with none.
StaleQueued(docs, files) ==
    { docs[i].doc_id : i \in { j \in DOMAIN docs :
        /\ docs[j].selected
        /\ docs[j].status = DOC_STATUS_QUEUED
        /\ HasSummaryFile(docs[j], files) } }

Interrupted(docs, files) ==
    { docs[i].doc_id : i \in { j \in DOMAIN docs :
        /\ docs[j].selected
        /\ docs[j].status = DOC_STATUS_SUMMARIZING
        /\ ~HasSummaryFile(docs[j], files) } }

\* DossierDocumentsWindow.__init__: no worker, no current document, and the
\* QTimer.singleShot(250, start_auto_summarization) pending.
\* interruption_requested remembers that _stop_worker has asked a running worker
\* of this window to stop.
NewWindow ==
    [open |-> TRUE, current_doc_id |-> 0, timers |-> 1, worker |-> NoWorker,
     interruption_requested |-> FALSE]

\* ------------------------------ UI/dossier_documents_window.py: the pipeline
\* Index of the first queued document, 0 when there is none.
NextQueued(docs) ==
    LET q == { i \in DOMAIN docs : docs[i].status = DOC_STATUS_QUEUED }
    IN  IF q = {} THEN 0 ELSE CHOOSE i \in q : \A j \in q : i <= j

\* start_auto_summarization followed by _start_summarization_for_doc: the
\* window and the ledger afterwards, and the id of the claimed document (0
\* when the call returns without claiming).
start_auto_summarization(win, docs) ==
    LET i == NextQueued(docs)
    IN  IF isRunning(win.worker) \/ i = 0
        THEN [win |-> win, docs |-> docs, claimed |-> 0]
        ELSE [win |-> [win EXCEPT !.current_doc_id = docs[i].doc_id,
                                  !.worker = [pc |-> "start", doc_id |-> docs[i].doc_id,
                                              sig |-> "none"]],
              docs |-> [docs EXCEPT ![i].status = DOC_STATUS_SUMMARIZING],
              claimed |-> docs[i].doc_id]

\* History bookkeeping shared by the actions that change the ledger.
Record(newdocs) ==
    ever_summarized' = ever_summarized \cup WithStatus(newdocs, DOC_STATUS_SUMMARIZED)

\* ------------------------------------------------- UI/upload_window.py
\* ModelCheckWindow._refresh: the status it leaves when no download of this
\* window is running.
refresh(present) == IF present THEN "ready" ELSE "missing"

\* _start_download (the button is enabled while the last refresh saw no model):
\* with the model there it only refreshes; otherwise it starts a
\* ModelDownloadWorker, which downloads without taking _LLM_JOB_LOCK.
StartDownload ==
    /\ proc = "running"
    /\ screen = "model_check"
    /\ model_status = "missing"
    /\ model_status' = IF model_present THEN "ready" ELSE "downloading"
    /\ UNCHANGED << proc, screen, model_present, stale_downloads, documents,
                    archive_created_at, manifest, summary_files, windows, lock, commits,
                    exits, history >>
    /\ UNCHANGED pure

\* ModelDownloadWorker.run of the visible window ends, and _on_worker_done or
\* _on_worker_failed refreshes: the .part file replaces the model, or not.
DownloadWorkerRun ==
    /\ proc = "running"
    /\ model_status = "downloading"
    /\ \E ok \in BOOLEAN :
          /\ model_present' = (model_present \/ ok)
          /\ model_status' = refresh(model_present \/ ok)
    /\ UNCHANGED << proc, screen, stale_downloads, documents, archive_created_at, manifest,
                    summary_files, windows, lock, commits, exits, history >>
    /\ UNCHANGED pure

\* ModelDownloadWorker.run of a closed window ends; its slots touch only the
\* AppState of that window.
StaleDownloadWorkerRun ==
    /\ proc = "running"
    /\ stale_downloads > 0
    /\ stale_downloads' = stale_downloads - 1
    /\ \E ok \in BOOLEAN : model_present' = (model_present \/ ok)
    /\ UNCHANGED << proc, screen, model_status, documents, archive_created_at, manifest,
                    summary_files, windows, lock, commits, exits, history >>
    /\ UNCHANGED pure

\* _go_back_to_login, then LoginWindow.handle_login: close() stops nothing, and
\* a new ModelCheckWindow is built on a new AppState.
Relogin ==
    /\ proc = "running"
    /\ screen = "model_check"
    /\ model_status = "downloading" => stale_downloads < MaxStaleDownloads
    /\ stale_downloads' = stale_downloads + (IF model_status = "downloading" THEN 1 ELSE 0)
    /\ model_status' = refresh(model_present)
    /\ UNCHANGED << proc, screen, model_present, documents, archive_created_at, manifest,
                    summary_files, windows, lock, commits, exits, history >>
    /\ UNCHANGED pure

\* _go_to_cases_list, on to a new case and its ZIP upload screen.
GoToCasesList ==
    /\ proc = "running"
    /\ screen = "model_check"
    /\ model_status = "ready"
    /\ model_present
    /\ screen' = "ingest"
    /\ UNCHANGED << proc, startup, documents, archive_created_at, manifest, summary_files,
                    windows, lock, commits, exits, history >>
    /\ UNCHANGED pure

\* ------------------------------------------------------------ ingestion
AddDocument(source_path, selected) ==
    /\ proc = "running"
    /\ screen = "ingest"
    /\ Len(documents) < NDocs
    /\ documents # << >> =>
          WalkIndex(source_path) = WalkIndex(documents[Len(documents)].source_path) + 1
    /\ documents' = add_document(documents, source_path, selected)
    /\ UNCHANGED << startup, proc, screen, archive_created_at, manifest, summary_files, windows,
                    lock, commits, exits, history >>
    /\ UNCHANGED pure

\* DocumentOverviewWindow is shown for the ledger built so far.
ShowOverview ==
    /\ proc = "running"
    /\ screen = "ingest"
    /\ Len(documents) > 0
    /\ screen' = "overview"
    /\ UNCHANGED << startup, proc, documents, archive_created_at, manifest, summary_files, windows,
                    lock, commits, exits, history >>
    /\ UNCHANGED pure

\* --------------------------------------- UI/document_overview_window.py
\* The ledger after create_case_archive has applied the check boxes.
apply_selection(docs, sel) ==
    [i \in DOMAIN docs |-> [docs[i] EXCEPT !.selected = sel[i]]]

\* create_case_archive with nothing selected: the selection is applied to the
\* shared state, then the handler returns after its warning.
CreateCaseArchiveNoSelection ==
    /\ proc = "running"
    /\ screen = "overview"
    /\ Len(documents) > 0
    /\ documents' = apply_selection(documents, [i \in DOMAIN documents |-> FALSE])
    /\ UNCHANGED << startup, proc, screen, archive_created_at, manifest, summary_files, windows,
                    lock, commits, exits, history >>
    /\ UNCHANGED pure

\* create_case_archive with a selection: apply it, queue the selected
\* documents, save, and open a new DossierDocumentsWindow on the same state,
\* whose constructor normalizes (saving again if anything changed).
CreateCaseArchive(sel) ==
    /\ proc = "running"
    /\ screen = "overview"
    /\ Len(documents) > 0
    /\ \E i \in DOMAIN sel : sel[i]
    /\ commits < MaxCommits
    /\ Len(windows) + exits < MaxWindows
    /\ LET marked == mark_archive_created_and_queue_selected(apply_selection(documents, sel))
           normalized == normalize_resume_state(marked, summary_files)
       IN  /\ documents' = normalized
           /\ archive_created_at' = commits + 1
           /\ manifest' = to_dict(normalized, commits + 1)
           /\ forced_from_queued' = forced_from_queued \cup StaleQueued(marked, summary_files)
           /\ Record(normalized)
    /\ commits' = commits + 1
    /\ windows' = Append(windows, NewWindow)
    /\ screen' = "documents"
    /\ resume_reset' = {}
    /\ UNCHANGED << startup, proc, summary_files, summary_writers, lock, exits >>
    /\ UNCHANGED pure

\* ------------------------------ UI/dossier_documents_window.py: handlers
\* QTimer.singleShot(..., self.start_auto_summarization) fires for window w.
\* The timer belongs to the window object, which outlives its closing.
TimerFired(w) ==
    /\ proc = "running"
    /\ windows[w].timers > 0
    /\ LET win == [windows[w] EXCEPT !.timers = @ - 1]
           r == start_auto_summarization(win, documents)
       IN  /\ windows' = [windows EXCEPT ![w] = r.win]
           /\ documents' = r.docs
           /\ manifest' = IF r.claimed # 0 THEN to_dict(r.docs, archive_created_at) ELSE manifest
           /\ resume_reset' = IF r.claimed # 0 THEN {} ELSE resume_reset
           /\ Record(r.docs)
    /\ UNCHANGED << startup, proc, screen, archive_created_at, summary_files, summary_writers, lock, commits, exits,
                    forced_from_queued >>
    /\ UNCHANGED pure

\* on_resume_clicked: normalize (saving if changed), then start_auto_summarization.
OnResumeClicked(w) ==
    /\ proc = "running"
    /\ screen = "documents"
    /\ windows[w].open
    /\ LET normalized == normalize_resume_state(documents, summary_files)
           changed == normalize_changed(documents, summary_files)
           r == start_auto_summarization(windows[w], normalized)
       IN  /\ windows' = [windows EXCEPT ![w] = r.win]
           /\ documents' = r.docs
           /\ manifest' = IF r.claimed # 0 \/ changed
                          THEN to_dict(r.docs, archive_created_at) ELSE manifest
           /\ forced_from_queued' = forced_from_queued \cup StaleQueued(documents, summary_files)
           /\ resume_reset' = IF r.claimed # 0 THEN {} ELSE resume_reset
           /\ ever_summarized' = ever_summarized \cup WithStatus(normalized, DOC_STATUS_SUMMARIZED)
    /\ UNCHANGED << startup, proc, screen, archive_created_at, summary_files, summary_writers, lock, commits, exits >>
    /\ UNCHANGED pure

\* _stop_worker: requestInterruption / quit / wait(3000) on a running worker.
\* run() never reads the interruption flag and has no event loop to quit, so
\* the worker is left as it is; without a running worker nothing is requested.
stop_worker(win) ==
    [win EXCEPT !.interruption_requested = @ \/ isRunning(win.worker)]

\* go_back: close() -> closeEvent -> _stop_worker, then a new
\* DocumentOverviewWindow on the same state.
GoBack(w) ==
    /\ proc = "running"
    /\ screen = "documents"
    /\ windows[w].open
    /\ windows' = [windows EXCEPT ![w] = [stop_worker(windows[w]) EXCEPT !.open = FALSE]]
    /\ screen' = "overview"
    /\ UNCHANGED << startup, proc, documents, archive_created_at, manifest, summary_files, lock,
                    commits, exits, history >>
    /\ UNCHANGED pure

\* open_final_report: close(), then a FinalReportWindow on the same state.
OpenFinalReport(w) ==
    /\ proc = "running"
    /\ screen = "documents"
    /\ windows[w].open
    /\ windows' = [windows EXCEPT ![w] = [stop_worker(windows[w]) EXCEPT !.open = FALSE]]
    /\ screen' = "report"
    /\ UNCHANGED << startup, proc, documents, archive_created_at, manifest, summary_files, lock,
                    commits, exits, history >>
    /\ UNCHANGED pure

\* The ledger after _on_worker_error / _on_worker_finished for document id.
on_worker_error(docs, id) ==
    [docs EXCEPT ![IndexOf(docs, id)].status = DOC_STATUS_ERROR,
                 ![IndexOf(docs, id)].error_message = "Error processing"]

on_worker_finished(docs, id) ==
    [docs EXCEPT ![IndexOf(docs, id)].status = DOC_STATUS_SUMMARIZED,
                 ![IndexOf(docs, id)].error_message = ""]

\* The queued `error` / `finished` signal of window w's worker reaches its
\* slot on the GUI thread. Both slots return at once when no document is
\* current; otherwise they record the outcome, save, clear current_doc_id and
\* arm a timer for start_auto_summarization.
DeliverSignal(w) ==
    /\ proc = "running"
    /\ windows[w].worker.sig # "none"
    /\ windows[w].current_doc_id # 0 => windows[w].timers < MaxTimers
    /\ LET win == windows[w]
           id == win.current_doc_id
           newdocs == IF win.worker.sig = "error"
                      THEN on_worker_error(documents, id)
                      ELSE on_worker_finished(documents, id)
       IN  IF id = 0
           THEN /\ windows' = [windows EXCEPT ![w].worker.sig = "none"]
                /\ UNCHANGED << documents, manifest, ever_summarized >>
           ELSE /\ windows' = [windows EXCEPT ![w].worker.sig = "none",
                                              ![w].current_doc_id = 0,
                                              ![w].timers = @ + 1]
                /\ documents' = newdocs
                /\ manifest' = to_dict(newdocs, archive_created_at)
                /\ Record(newdocs)
    /\ UNCHANGED << startup, proc, screen, archive_created_at, summary_files, summary_writers, lock, commits, exits,
                    forced_from_queued, resume_reset >>
    /\ UNCHANGED pure

\* ------------------------------------------- backend/summarizer_worker.py
\* SummarizationWorker.run, step by step. The worker reads the file it was
\* constructed with, never the ledger.
WorkerPath(w) == DocById(documents, windows[w].worker.doc_id).source_path

\* run() entry: a macOS metadata file makes run() return with no signal;
\* otherwise the worker takes _LLM_JOB_LOCK for ensure_model_ready.
WorkerStart(w) ==
    /\ proc = "running"
    /\ windows[w].worker.pc = "start"
    /\ \/ /\ is_macos_zip_artifact(WorkerPath(w))
          /\ windows' = [windows EXCEPT ![w].worker = ExitedWorker("none")]
          /\ UNCHANGED lock
       \/ /\ ~is_macos_zip_artifact(WorkerPath(w))
          /\ lock = 0
          /\ lock' = w
          /\ windows' = [windows EXCEPT ![w].worker.pc = "ensure"]
    /\ UNCHANGED << startup, proc, screen, documents, archive_created_at, manifest, summary_files,
                    commits, exits, history >>
    /\ UNCHANGED pure

\* ensure_model_ready returns or raises; the lock is released either way.
\* An exception reaches the handler at the end of run(), which emits `error`.
WorkerEnsureModel(w) ==
    /\ proc = "running"
    /\ windows[w].worker.pc = "ensure"
    /\ lock' = 0
    /\ \/ windows' = [windows EXCEPT ![w].worker.pc = "extract"]
       \/ windows' = [windows EXCEPT ![w].worker = ReturningWorker("error")]
    /\ UNCHANGED << startup, proc, screen, documents, archive_created_at, manifest, summary_files,
                    commits, exits, history >>
    /\ UNCHANGED pure

\* extract_text: no text emits `error` ("Warning: No text extracted") and
\* returns; with text the worker takes the lock for summarize_document.
WorkerExtract(w) ==
    /\ proc = "running"
    /\ windows[w].worker.pc = "extract"
    /\ \/ /\ windows' = [windows EXCEPT ![w].worker = ReturningWorker("error")]
          /\ UNCHANGED lock
       \/ /\ lock = 0
          /\ lock' = w
          /\ windows' = [windows EXCEPT ![w].worker.pc = "summarize"]
    /\ UNCHANGED << startup, proc, screen, documents, archive_created_at, manifest, summary_files,
                    commits, exits, history >>
    /\ UNCHANGED pure

\* summarize_document returns or raises; the lock is released either way.
\* On success run() writes <stem>_summary.txt and <stem>_summary.json into
\* the summaries directory and emits `finished`.
WorkerSummarize(w) ==
    /\ proc = "running"
    /\ windows[w].worker.pc = "summarize"
    /\ lock' = 0
    /\ \/ /\ summary_files' = summary_files \cup
                {[stem |-> PathStem(WorkerPath(w)), ext |-> "txt"],
                 [stem |-> PathStem(WorkerPath(w)), ext |-> "json"]}
          /\ summary_writers' = summary_writers \cup {windows[w].worker.doc_id}
          /\ windows' = [windows EXCEPT ![w].worker = ReturningWorker("finished")]
       \/ /\ windows' = [windows EXCEPT ![w].worker = ReturningWorker("error")]
          /\ UNCHANGED << summary_files, summary_writers >>
    /\ UNCHANGED << startup, proc, screen, documents, archive_created_at, manifest,
                    commits, exits, ever_summarized, forced_from_queued, resume_reset >>
    /\ UNCHANGED pure

\* run() returns after its emit: the thread stops being reported as running.
WorkerReturn(w) ==
    /\ proc = "running"
    /\ windows[w].worker.pc = "returning"
    /\ windows' = [windows EXCEPT ![w].worker = ExitedWorker(@.sig)]
    /\ UNCHANGED << startup, proc, screen, documents, archive_created_at, manifest, summary_files, lock,
                    commits, exits, history >>
    /\ UNCHANGED pure

\* ------------------------------------------------- process exit and restart
\* What a dead process leaves: nothing in memory, the disk as it was.
Exited ==
    /\ proc' = "exited"
    /\ screen' = "none"
    /\ documents' = << >>
    /\ archive_created_at' = 0
    /\ windows' = << >>
    /\ lock' = 0
    /\ exits' = exits + 1
    /\ resume_reset' = {}

\* The process ends between two handlers: a crash, a kill, or the user
\* closing the last window.
ProcessExit ==
    /\ proc = "running"
    /\ exits < MaxExits
    /\ Exited
    /\ UNCHANGED << startup, manifest, summary_files, summary_writers, commits, ever_summarized, forced_from_queued >>
    /\ UNCHANGED pure

\* A handler is about to call save_manifest.
SaveEnabled ==
    \/ /\ screen = "overview" /\ Len(documents) > 0
    \/ \E w \in DOMAIN windows :
          \/ windows[w].worker.sig # "none" /\ windows[w].current_doc_id # 0
          \/ /\ windows[w].timers > 0
             /\ start_auto_summarization(windows[w], documents).claimed # 0
          \/ /\ screen = "documents" /\ windows[w].open
             /\ normalize_changed(documents, summary_files)

\* save_manifest opens manifest.json with mode "w", which truncates it, and
\* then streams the JSON into it; the process ends in between.
CrashDuringSave ==
    /\ proc = "running"
    /\ exits < MaxExits
    /\ SaveEnabled
    /\ manifest' = PartialManifest
    /\ Exited
    /\ UNCHANGED << startup, summary_files, summary_writers, commits, ever_summarized, forced_from_queued >>
    /\ UNCHANGED pure

\* The process ends inside create_case_archive after its save_manifest and
\* before the new window's constructor has normalized.
CrashAfterCommitSave(sel) ==
    /\ proc = "running"
    /\ exits < MaxExits
    /\ screen = "overview"
    /\ Len(documents) > 0
    /\ \E i \in DOMAIN sel : sel[i]
    /\ commits < MaxCommits
    /\ manifest' = to_dict(mark_archive_created_and_queue_selected(apply_selection(documents, sel)),
                           commits + 1)
    /\ commits' = commits + 1
    /\ Exited
    /\ UNCHANGED << startup, summary_files, summary_writers, ever_summarized, forced_from_queued >>
    /\ UNCHANGED pure

\* CasesListWindow.open_case_by_row in a new process: load_manifest, then a
\* DossierDocumentsWindow whose constructor normalizes the loaded ledger.
Restart ==
    /\ proc = "exited"
    /\ manifest.kind = "full"
    /\ LET loaded == from_dict(manifest)
           normalized == normalize_resume_state(loaded.documents, summary_files)
       IN  /\ documents' = normalized
           /\ archive_created_at' = loaded.archive_created_at
           /\ manifest' = IF normalize_changed(loaded.documents, summary_files)
                          THEN to_dict(normalized, loaded.archive_created_at) ELSE manifest
           /\ forced_from_queued' =
                 forced_from_queued \cup StaleQueued(loaded.documents, summary_files)
           /\ resume_reset' = Interrupted(loaded.documents, summary_files)
           /\ Record(normalized)
    /\ proc' = "running"
    /\ screen' = "documents"
    /\ windows' = << NewWindow >>
    /\ UNCHANGED << startup, summary_files, summary_writers, lock, commits, exits >>
    /\ UNCHANGED pure

Next ==
    \/ \E p \in SourcePaths, sel \in BOOLEAN : AddDocument(p, sel)
    \/ ShowOverview
    \/ CreateCaseArchiveNoSelection
    \/ \E sel \in [DOMAIN documents -> BOOLEAN] : CreateCaseArchive(sel)
    \/ \E w \in DOMAIN windows : TimerFired(w)
    \/ \E w \in DOMAIN windows : OnResumeClicked(w)
    \/ \E w \in DOMAIN windows : GoBack(w)
    \/ \E w \in DOMAIN windows : OpenFinalReport(w)
    \/ \E w \in DOMAIN windows : DeliverSignal(w)
    \/ \E w \in DOMAIN windows : WorkerStart(w)
    \/ \E w \in DOMAIN windows : WorkerEnsureModel(w)
    \/ \E w \in DOMAIN windows : WorkerExtract(w)
    \/ \E w \in DOMAIN windows : WorkerSummarize(w)
    \/ \E w \in DOMAIN windows : WorkerReturn(w)
    \/ ProcessExit
    \/ CrashDuringSave
    \/ \E sel \in [DOMAIN documents -> BOOLEAN] : CrashAfterCommitSave(sel)
    \/ Restart

Spec == Init /\ [][Next]_vars

\* ------------------------------------------ first run: the model is missing
\* A process at its first ModelCheckWindow, the model file not downloaded yet.
InitRuntime ==
    /\ proc = "running"
    /\ screen = "model_check"
    /\ model_present = FALSE
    /\ model_status = "missing"
    /\ stale_downloads = 0
    /\ documents = << >>
    /\ archive_created_at = 0
    /\ manifest = NoManifest
    /\ summary_files = {}
    /\ windows = << >>
    /\ lock = 0
    /\ commits = 0
    /\ exits = 0
    /\ ever_summarized = {}
    /\ forced_from_queued = {}
    /\ resume_reset = {}
    /\ summary_writers = {}
    /\ fn_args = NoCall
    /\ fn_result = NoCall
    /\ InitEngine

\* The model check, then one case summarized in one documents window.
NextRuntime ==
    \/ StartDownload
    \/ DownloadWorkerRun
    \/ StaleDownloadWorkerRun
    \/ Relogin
    \/ GoToCasesList
    \/ \E p \in SourcePaths, sel \in BOOLEAN : AddDocument(p, sel)
    \/ ShowOverview
    \/ \E sel \in [DOMAIN documents -> BOOLEAN] : CreateCaseArchive(sel)
    \/ \E w \in DOMAIN windows : TimerFired(w)
    \/ \E w \in DOMAIN windows : DeliverSignal(w)
    \/ \E w \in DOMAIN windows : WorkerStart(w)
    \/ \E w \in DOMAIN windows : WorkerEnsureModel(w)
    \/ \E w \in DOMAIN windows : WorkerExtract(w)
    \/ \E w \in DOMAIN windows : WorkerSummarize(w)
    \/ \E w \in DOMAIN windows : WorkerReturn(w)

SpecRuntime == InitRuntime /\ [][NextRuntime]_vars

\* ------------------------------------- opening a persisted case: any ledger
\* The runs of n consecutive files of the walk.
WalkRuns(n) ==
    { [i \in 1..n |-> WalkOrder[k + i - 1]] : k \in 1..(Len(WalkOrder) - n + 1) }

\* Every ledger of 1..NDocs documents a manifest can hold.
PersistedLedgers ==
    UNION { { [i \in 1..n |->
                 [doc_id |-> i,
                  source_path |-> run[i],
                  selected |-> f[i].selected,
                  status |-> f[i].status,
                  error_message |-> f[i].error_message]] :
              run \in WalkRuns(n),
              f \in [1..n -> [selected : BOOLEAN, status : DocStatuses,
                              error_message : {"", "Error processing"}]] } : n \in 1..NDocs }

\* A case left on disk by an earlier process: any manifest, any summary files.
InitResume ==
    /\ proc = "exited"
    /\ screen = "none"
    /\ model_present = TRUE
    /\ model_status = "ready"
    /\ stale_downloads = 0
    /\ documents = << >>
    /\ archive_created_at = 0
    /\ \E docs \in PersistedLedgers, created \in 0..1 : manifest = to_dict(docs, created)
    /\ summary_files \in SUBSET ({ p[e] : p \in { summary_paths_for_doc([source_path |-> WalkOrder[i]]) : i \in { j \in DOMAIN WalkOrder : ~is_macos_zip_artifact(WalkOrder[j]) } }, e \in {"txt", "json"} })
    /\ windows = << >>
    /\ lock = 0
    /\ commits = 1
    /\ exits = 1
    /\ ever_summarized = {}
    /\ forced_from_queued = {}
    /\ resume_reset = {}
    /\ summary_writers = {}
    /\ fn_args = NoCall
    /\ fn_result = NoCall
    /\ InitEngine

SpecResume == InitResume /\ [][Restart]_vars

\* ------------------------------------- a case opened from the cases list
\* The ledgers of a case that was never committed: every document as
\* add_document left it.
UncommittedLedgers ==
    { docs \in PersistedLedgers :
        \A i \in DOMAIN docs :
            docs[i].status = DOC_STATUS_DETECTED /\ docs[i].error_message = "" }

\* The cases list shows a case whose manifest an earlier version of the
\* application wrote before the archive was committed (the manifests
\* _normalize_resume_state calls "older", with documents still detected and
\* archive_created_at null); no summary has been written.
InitOpenCase ==
    /\ proc = "exited"
    /\ screen = "none"
    /\ model_present = TRUE
    /\ model_status = "ready"
    /\ stale_downloads = 0
    /\ documents = << >>
    /\ archive_created_at = 0
    /\ \E docs \in UncommittedLedgers : manifest = to_dict(docs, 0)
    /\ summary_files = {}
    /\ windows = << >>
    /\ lock = 0
    /\ commits = 0
    /\ exits = 0
    /\ ever_summarized = {}
    /\ forced_from_queued = {}
    /\ resume_reset = {}
    /\ summary_writers = {}
    /\ fn_args = NoCall
    /\ fn_result = NoCall
    /\ InitEngine

\* The case is opened (open_case_by_row) and worked on in its documents window.
NextOpenCase ==
    \/ Restart
    \/ \E w \in DOMAIN windows : TimerFired(w)
    \/ \E w \in DOMAIN windows : OnResumeClicked(w)
    \/ \E w \in DOMAIN windows : DeliverSignal(w)
    \/ \E w \in DOMAIN windows : WorkerStart(w)
    \/ \E w \in DOMAIN windows : WorkerEnsureModel(w)
    \/ \E w \in DOMAIN windows : WorkerExtract(w)
    \/ \E w \in DOMAIN windows : WorkerSummarize(w)
    \/ \E w \in DOMAIN windows : WorkerReturn(w)
    \/ ProcessExit

SpecOpenCase == InitOpenCase /\ [][NextOpenCase]_vars

\* The overview of that case is shown, nothing committed yet.
InitSameStem ==
    /\ proc = "running"
    /\ screen = "overview"
    /\ model_present = TRUE
    /\ model_status = "ready"
    /\ stale_downloads = 0
    /\ documents = add_document(add_document(<< >>, WalkOrder[2], TRUE), WalkOrder[4], TRUE)
    /\ archive_created_at = 0
    /\ manifest = NoManifest
    /\ summary_files = {}
    /\ windows = << >>
    /\ lock = 0
    /\ commits = 0
    /\ exits = 0
    /\ ever_summarized = {}
    /\ forced_from_queued = {}
    /\ resume_reset = {}
    /\ summary_writers = {}
    /\ fn_args = NoCall
    /\ fn_result = NoCall
    /\ InitEngine

\* The case is committed and worked on in one documents window at a time.
NextSameStem ==
    \/ \E sel \in [DOMAIN documents -> BOOLEAN] : CreateCaseArchive(sel)
    \/ \E w \in DOMAIN windows : TimerFired(w)
    \/ \E w \in DOMAIN windows : OnResumeClicked(w)
    \/ \E w \in DOMAIN windows : DeliverSignal(w)
    \/ \E w \in DOMAIN windows : WorkerStart(w)
    \/ \E w \in DOMAIN windows : WorkerEnsureModel(w)
    \/ \E w \in DOMAIN windows : WorkerExtract(w)
    \/ \E w \in DOMAIN windows : WorkerSummarize(w)
    \/ \E w \in DOMAIN windows : WorkerReturn(w)
    \/ ProcessExit
    \/ Restart

SpecSameStem == InitSameStem /\ [][NextSameStem]_vars

\* ----------------------------- backend/state.py: the manifest, every field
\* A Python value that may be None carries its type.
None == [type |-> "NoneType", value |-> ""]

Str(s) == [type |-> "str", value |-> s]

Float(s) == [type |-> "float", value |-> s]

\* pathlib.Path(s) that keeps the empty string as it is.
Path_keeping_empty(s) == [type |-> "Path", value |-> s]

\* pathlib.Path(s): the empty string is the current directory ".".
Path(s) == [type |-> "Path", value |-> IF s = "" THEN "." ELSE s]

\* _path_str: str(p), None for None.
path_str(p) == IF p = None THEN None ELSE Str(p.value)

\* _to_path: `if not value: return None`, so None and "" both give None.
to_path(v) == IF v = None \/ v.value = "" THEN None ELSE Path(v.value)

SummaryState_to_dict(x) ==
    [txt_path |-> path_str(x.txt_path),
     json_path |-> path_str(x.json_path),
     updated_at |-> x.updated_at,
     error_message |-> x.error_message]

SummaryState_from_dict(d) ==
    [txt_path |-> to_path(d.txt_path),
     json_path |-> to_path(d.json_path),
     updated_at |-> d.updated_at,
     error_message |-> d.error_message]

DocumentState_to_dict(x) ==
    [doc_id |-> x.doc_id,
     original_name |-> x.original_name,
     source_path |-> path_str(x.source_path),
     file_ext |-> x.file_ext,
     detected_type |-> x.detected_type,
     detected_confidence |-> x.detected_confidence,
     type_override |-> x.type_override,
     selected |-> x.selected,
     status |-> x.status,
     summary |-> SummaryState_to_dict(x.summary),
     error_message |-> x.error_message]

\* source_path goes through Path(...) itself, selected through bool(...).
DocumentState_from_dict(d) ==
    [doc_id |-> d.doc_id,
     original_name |-> d.original_name,
     source_path |-> Path(d.source_path.value),
     file_ext |-> d.file_ext,
     detected_type |-> d.detected_type,
     detected_confidence |-> d.detected_confidence,
     type_override |-> d.type_override,
     selected |-> (d.selected = TRUE),
     status |-> d.status,
     summary |-> SummaryState_from_dict(d.summary),
     error_message |-> d.error_message]

CaseState_to_dict(x) ==
    [case_id |-> x.case_id,
     case_dir |-> path_str(x.case_dir),
     source_zip_path |-> path_str(x.source_zip_path),
     extracted_dir |-> path_str(x.extracted_dir),
     summaries_dir |-> path_str(x.summaries_dir),
     final_dir |-> path_str(x.final_dir),
     selected_zip_path |-> path_str(x.selected_zip_path),
     final_report_path |-> path_str(x.final_report_path),
     archive_created_at |-> x.archive_created_at]

CaseState_from_dict(d) ==
    [case_id |-> d.case_id,
     case_dir |-> to_path(d.case_dir),
     source_zip_path |-> to_path(d.source_zip_path),
     extracted_dir |-> to_path(d.extracted_dir),
     summaries_dir |-> to_path(d.summaries_dir),
     final_dir |-> to_path(d.final_dir),
     selected_zip_path |-> to_path(d.selected_zip_path),
     final_report_path |-> to_path(d.final_report_path),
     archive_created_at |-> d.archive_created_at]

\* asdict(self) with the path replaced by its string.
ModelState_to_dict(x) == [x EXCEPT !.path = path_str(x.path)]

ModelState_from_dict(d) ==
    [name |-> d.name,
     status |-> d.status,
     path |-> to_path(d.path),
     last_checked_at |-> d.last_checked_at,
     error_message |-> d.error_message]

\* AppState.to_dict, every field. The dictionary holds only JSON-native
\* values (strings, booleans, numbers, null, lists, objects), which json.dump
\* and json.load hand back as they were given.
AppState_to_dict(x) ==
    [version |-> x.version,
     updated_at |-> x.updated_at,
     user |-> [email |-> x.user.email],
     model |-> ModelState_to_dict(x.model),
     case |-> CaseState_to_dict(x.case),
     documents |-> [i \in DOMAIN x.documents |-> DocumentState_to_dict(x.documents[i])],
     settings |-> [language |-> x.settings.language,
                   output_formats |-> x.settings.output_formats]]

\* AppState.from_dict on a dictionary that has every key.
AppState_from_dict(d) ==
    [version |-> d.version,
     updated_at |-> d.updated_at,
     user |-> [email |-> d.user.email],
     model |-> ModelState_from_dict(d.model),
     case |-> CaseState_from_dict(d.case),
     documents |-> [i \in DOMAIN d.documents |-> DocumentState_from_dict(d.documents[i])],
     settings |-> [language |-> d.settings.language,
                   output_formats |-> d.settings.output_formats]]

\* AppState.touch, called by save_manifest before it dumps.
touch(x, now) == [x EXCEPT !.updated_at = now]

\* Optional[Path] and Optional[str] values.
OptionalPaths == { None, Path(""), Path("cases/c1") }

OptionalStrs == { None, Str(""), Str("2026-01-01T00:00:00") }

\* The documents lists of the enumerated states: none, or one document.
ManifestDocuments ==
    { << >> } \cup
    { << [doc_id |-> "d1",
          original_name |-> "a.p",
          source_path |-> sp,
          file_ext |-> "p",
          detected_type |-> "PV",
          detected_confidence |-> conf,
          type_override |-> "",
          selected |-> sel,
          status |-> DOC_STATUS_SUMMARIZED,
          summary |-> [txt_path |-> tp, json_path |-> None,
                       updated_at |-> at, error_message |-> ""],
          error_message |-> ""] >> :
        sp \in { Path(""), Path("x/a.p") },
        conf \in { None, Float("0.5") },
        sel \in BOOLEAN,
        tp \in OptionalPaths,
        at \in OptionalStrs }

\* The AppState values the round trip is tried on.
ManifestStates ==
    { [version |-> 1,
       updated_at |-> "2026-01-01T00:00:00",
       user |-> [email |-> "u@x"],
       model |-> [name |-> "m.gguf", status |-> "ready", path |-> mp,
                  last_checked_at |-> None, error_message |-> ""],
       case |-> [case_id |-> "c1",
                 case_dir |-> cd,
                 source_zip_path |-> None,
                 extracted_dir |-> None,
                 summaries_dir |-> cd,
                 final_dir |-> None,
                 selected_zip_path |-> None,
                 final_report_path |-> None,
                 archive_created_at |-> created],
       documents |-> docs,
       settings |-> [language |-> "nl", output_formats |-> <<"txt", "json", "pdf">>]] :
        mp \in OptionalPaths, cd \in OptionalPaths, created \in OptionalStrs,
        docs \in ManifestDocuments }

\* from_dict(to_dict(m)), and save_manifest followed by load_manifest.
CallManifestRoundTrip ==
    /\ fn_args.fn = "manifest"
    /\ fn_result = NoCall
    /\ LET saved == touch(fn_args.state, "2026-01-02T00:00:00")
       IN  fn_result' =
               [fn |-> "manifest",
                from_to |-> AppState_from_dict(AppState_to_dict(fn_args.state)),
                saved |-> saved,
                loaded |-> AppState_from_dict(AppState_to_dict(saved))]
    /\ UNCHANGED << program, fn_args, engine >>

\* ------------------------------------------------ strings, by character
\* From here on a string is a sequence of characters.
Whitespace == { " ", "\n", "\t" }

RECURSIVE lstrip(_)
lstrip(str) ==
    IF str # << >> /\ Head(str) \in Whitespace THEN lstrip(Tail(str)) ELSE str

RECURSIVE rstrip(_)
rstrip(str) ==
    IF str # << >> /\ str[Len(str)] \in Whitespace
    THEN rstrip(SubSeq(str, 1, Len(str) - 1))
    ELSE str

\* str.strip()
strip(str) == lstrip(rstrip(str))

\* Python's `a or b` on strings: the empty string is false.
str_or(a, b) == IF a # << >> THEN a ELSE b

\* ---------------------------- backend/state.py: DocumentState.final_type
\* final_type with the detected type given the first say.
final_type_detected_first(doc) ==
    strip(str_or(str_or(doc.detected_type, doc.type_override), << >>))

\* DocumentState.final_type: (type_override or detected_type or "").strip()
final_type(doc) ==
    strip(str_or(str_or(doc.type_override, doc.detected_type), << >>))

\* The codes of DOC_TYPE_OPTIONS that the type box offers, in part.
DOC_TYPE_OPTIONS ==
    { <<"P", "V">>, <<"V", "C">>, <<"U", "N", "K", "N", "O", "W", "N">> }

\* create_case_archive, the type box of one document: the override is stored
\* only if it is non-empty and differs from the detected code.
apply_type_box(doc, currentData) ==
    LET chosen_code == strip(currentData)
        detected_code == strip(doc.detected_type)
    IN  [doc EXCEPT !.type_override =
            IF chosen_code # << >> /\ chosen_code # detected_code
            THEN chosen_code ELSE << >>]

\* The user commits the overview with a type chosen for the document.
ApplyTypeBox(currentData) ==
    /\ fn_args.fn = "final_type"
    /\ fn_result = NoCall
    /\ fn_args' = [fn_args EXCEPT !.doc = apply_type_box(fn_args.doc, currentData)]
    /\ UNCHANGED << program, fn_result, engine >>

CallFinalType ==
    /\ fn_args.fn = "final_type"
    /\ fn_result = NoCall
    /\ fn_result' = [fn |-> "final_type", value |-> final_type(fn_args.doc)]
    /\ UNCHANGED << program, fn_args, engine >>

\* ------------------------------------------ backend/summarizer.py: _chunk
\* str.rfind("\n") on a piece: the 0-based index of the last newline, -1 when
\* there is none.
rfind_newline(piece) ==
    LET at == { k \in 1..Len(piece) : piece[k] = "\n" }
    IN  IF at = {} THEN -1 ELSE (CHOOSE k \in at : \A m \in at : m <= k) - 1

\* int(max_chars * 0.6)
cut_threshold(max_chars) == (max_chars * 6) \div 10

\* The piece taken at offset i: the window t[i : i + max_chars], cut at its
\* last newline when that lies past 60% of the window.
piece_at(t, i, max_chars) ==
    LET window == SubSeq(t, i + 1, IF i + max_chars < Len(t) THEN i + max_chars ELSE Len(t))
        j == rfind_newline(window)
    IN  IF j > cut_threshold(max_chars) THEN SubSeq(window, 1, j) ELSE window

\* `i += len(piece)` that also steps over the newline after the piece.
advance_past_newline(piece) == Len(piece) + 1

\* i += len(piece)
advance(piece) == Len(piece)

\* The while loop of _chunk from offset i. `turns` counts the iterations left
\* before the loop is given up as not terminating: every iteration that
\* moves forward uses one of the Len(t) characters.
RECURSIVE chunk_loop(_, _, _, _)
chunk_loop(t, i, max_chars, turns) ==
    IF i >= Len(t) THEN [out |-> << >>, terminated |-> TRUE]
    ELSE IF turns = 0 THEN [out |-> << >>, terminated |-> FALSE]
    ELSE LET piece == piece_at(t, i, max_chars)
             rest == chunk_loop(t, i + advance(piece), max_chars, turns - 1)
         IN  [out |-> << strip(piece) >> \o rest.out, terminated |-> rest.terminated]

\* _chunk(text, max_chars)
chunk(text, max_chars) ==
    LET t == strip(text)
    IN  IF t = << >> THEN [out |-> << >>, terminated |-> TRUE]
        ELSE chunk_loop(t, 0, max_chars, Len(t))

\* The characters of a string that are not whitespace, in order.
non_whitespace(str) == SelectSeq(str, LAMBDA ch : ch \notin Whitespace)

\* The chunks joined in order.
RECURSIVE join(_)
join(strs) == IF strs = << >> THEN << >> ELSE Head(strs) \o join(Tail(strs))

MaxTextLen == 5     \* characters of an enumerated text
MaxChunkSize == 4   \* largest max_chars tried on the enumerated texts

\* Every text of up to n characters over a letter, a blank and a newline.
RECURSIVE TextsUpTo(_)
TextsUpTo(n) ==
    IF n = 0 THEN { << >> }
    ELSE LET shorter == TextsUpTo(n - 1)
         IN  shorter \cup { Append(t, ch) : t \in { u \in shorter : Len(u) = n - 1 },
                                            ch \in { "a", " ", "\n" } }

CallChunk ==
    /\ fn_args.fn = "chunk"
    /\ fn_result = NoCall
    /\ fn_result' = [fn |-> "chunk", value |-> chunk(fn_args.text, fn_args.max_chars)]
    /\ UNCHANGED << program, fn_args, engine >>

\* ------------------------------- backend/summarizer.py: summarize_document
MAX_CHARS_PER_CHUNK == 1800

AGGREGATE_GROUP_SIZE == 4

AGGREGATE_MAX_PARTIALS == 6

\* Map: one partial summary per chunk. What the model writes is opaque; a
\* partial is known by the chunk it summarizes.
map_partials(chunks) == [k \in DOMAIN chunks |-> [partial_of |-> k]]

\* The fan-in without its cap: every partial goes into Reduce.
cap_partials_keeping_all(partials) == partials

\* The fan-in cap: partials[:AGGREGATE_MAX_PARTIALS]
cap_partials(partials) ==
    IF Len(partials) > AGGREGATE_MAX_PARTIALS
    THEN SubSeq(partials, 1, AGGREGATE_MAX_PARTIALS)
    ELSE partials

\* _reduce_group: one summary for a group of summaries.
reduce_group(group) == [summary_of |-> group]

\* One pass of the inner for loop: range(0, len(partials), AGGREGATE_GROUP_SIZE).
grouped(partials, size) ==
    [g \in 1..((Len(partials) + size - 1) \div size) |->
        reduce_group(SubSeq(partials, (g - 1) * size + 1,
                            IF g * size < Len(partials) THEN g * size ELSE Len(partials)))]

\* The while loop of Reduce; `turns` as in chunk_loop.
RECURSIVE reduce_loop(_, _, _)
reduce_loop(partials, size, turns) ==
    IF Len(partials) <= 1 THEN [partials |-> partials, rounds |-> 0, terminated |-> TRUE]
    ELSE IF turns = 0 THEN [partials |-> partials, rounds |-> 0, terminated |-> FALSE]
    ELSE LET rest == reduce_loop(grouped(partials, size), size, turns - 1)
         IN  [rest EXCEPT !.rounds = @ + 1]

\* summarize_document from the chunks on: Map, cap, Reduce.
summarize_document(text) ==
    LET chunks == chunk(text, MAX_CHARS_PER_CHUNK).out
        partials == cap_partials(map_partials(chunks))
        reduced == reduce_loop(partials, AGGREGATE_GROUP_SIZE, Len(partials))
    IN  [chunks |-> Len(chunks),
         partials |-> Len(partials),
         rounds |-> reduced.rounds,
         terminated |-> reduced.terminated,
         summaries |-> IF chunks = << >> THEN 1 ELSE Len(reduced.partials)]

ScenarioChars == 20000  \* length of the long document

\* A document of n characters with a newline as every period-th character
\* (none for period 0), the last character excepted.
document_text(n, period) ==
    [k \in 1..n |-> IF period > 0 /\ k % period = 0 /\ k < n THEN "\n" ELSE "a"]

CallSummarizeDocument ==
    /\ fn_args.fn = "summarize_document"
    /\ fn_result = NoCall
    /\ fn_result' =
           [fn |-> "summarize_document",
            value |-> summarize_document(document_text(fn_args.length, fn_args.period))]
    /\ UNCHANGED << program, fn_args, engine >>

\* ------------------------------------------------ backend/classifiers.py
UpperCase ==
    << "A", "B", "C", "D", "E", "F", "G", "H", "I", "J", "K", "L", "M",
       "N", "O", "P", "Q", "R", "S", "T", "U", "V", "W", "X", "Y", "Z" >>

LowerCase ==
    << "a", "b", "c", "d", "e", "f", "g", "h", "i", "j", "k", "l", "m",
       "n", "o", "p", "q", "r", "s", "t", "u", "v", "w", "x", "y", "z" >>

\* str.lower() and str.upper(), on the ASCII letters.
lower(str) ==
    [k \in DOMAIN str |->
        IF \E n \in DOMAIN UpperCase : UpperCase[n] = str[k]
        THEN LowerCase[CHOOSE n \in DOMAIN UpperCase : UpperCase[n] = str[k]]
        ELSE str[k]]

upper(str) ==
    [k \in DOMAIN str |->
        IF \E n \in DOMAIN LowerCase : LowerCase[n] = str[k]
        THEN UpperCase[CHOOSE n \in DOMAIN LowerCase : LowerCase[n] = str[k]]
        ELSE str[k]]

\* _normalize: lowercase; the accent stripping leaves ASCII text as it is.
normalize(str) == lower(str)

\* Runs of blanks collapsed to one blank.
RECURSIVE collapse_blanks(_)
collapse_blanks(str) ==
    IF Len(str) < 2 THEN str
    ELSE IF str[1] = " " /\ str[2] = " " THEN collapse_blanks(Tail(str))
    ELSE << str[1] >> \o collapse_blanks(Tail(str))

\* _prep_for_search: normalize, runs of "_", "-", "." and of whitespace become
\* one blank, then strip.
prep_for_search(str) ==
    LET n == normalize(str)
        blanked == [k \in DOMAIN n |->
                       IF n[k] \in { "_", "-", "." } \cup Whitespace THEN " " ELSE n[k]]
    IN  strip(collapse_blanks(blanked))

\* The offsets (0-based) at which needle occurs in haystack.
occurrences(haystack, needle) ==
    { k \in 0..(Len(haystack) - Len(needle)) :
        SubSeq(haystack, k + 1, k + Len(needle)) = needle }

\* `needle in haystack`
contains(haystack, needle) == occurrences(haystack, needle) # {}

\* _token_match: an occurrence with no [a-z0-9] right before or after it.
token_match(haystack, token) ==
    LET word == { LowerCase[n] : n \in DOMAIN LowerCase } \cup { "0", "1", "2", "3", "4", "5", "6", "7", "8", "9" }
    IN  \E k \in occurrences(haystack, token) :
            /\ k > 0 => haystack[k] \notin word
            /\ k + Len(token) < Len(haystack) => haystack[k + Len(token) + 1] \notin word

\* _dedupe_keep_order: items stripped, empty ones dropped, first occurrences kept.
RECURSIVE dedupe_keep_order(_)
dedupe_keep_order(items) ==
    IF items = << >> THEN << >>
    ELSE LET front == dedupe_keep_order(SubSeq(items, 1, Len(items) - 1))
             it == strip(items[Len(items)])
         IN  IF it = << >> \/ \E k \in DOMAIN front : front[k] = it
             THEN front ELSE Append(front, it)

\* _get_allowed_types_from_config: the keys of PROMPT_FILES but UNKNOWN.
AllowedTypes ==
    { << "P", "J" >>, << "P", "V" >>, << "R", "E", "C", "L", "A", "S", "S" >>, << "T", "L", "L" >>, << "U", "J", "D" >>, << "V", "C" >> }

UNKNOWN == << "U", "N", "K", "N", "O", "W", "N" >>

NoRules == [phrases |-> << >>, tokens |-> << >>]

\* dict.get(key, {"phrases": [], "tokens": []})
rules_get(rules, key) == IF key \in DOMAIN rules THEN rules[key] ELSE NoRules

\* _default_rules, in part: some of the keywords of four of the types.
default_rules ==
    (<< "P", "V" >> :> [phrases |-> << << "p", "v", " ", "v", "g", "l" >>, << "v", "e", "r", "h", "o", "o", "r" >> >>, tokens |-> << << "p", "v" >> >>])
    @@ (<< "V", "C" >> :> [phrases |-> << << "v", "e", "r", "h", "o", "o", "r", " ", "r", "a", "a", "d", "k", "a", "m", "e", "r" >> >>, tokens |-> << << "v", "c" >>, << "v", "g", "c" >> >>])
    @@ (<< "P", "J" >> :> [phrases |-> << << "n", "i", "f", "p" >> >>, tokens |-> << << "p", "j" >> >>])
    @@ (<< "R", "E", "C", "L", "A", "S", "S" >> :> [phrases |-> << << "r", "e", "c", "l", "a", "s", "s", "e", "r", "i", "n", "g", "s", "r", "a", "p", "p", "o", "r", "t" >> >>, tokens |-> << >>])

\* _merge_rules that takes every type of either table.
merge_rules_of_all_types(base, extra, allowed_types) ==
    [t \in DOMAIN base \cup DOMAIN extra |->
        [phrases |-> dedupe_keep_order(rules_get(base, t).phrases \o rules_get(extra, t).phrases),
         tokens |-> dedupe_keep_order(rules_get(base, t).tokens \o rules_get(extra, t).tokens)]]

\* _merge_rules: one entry per allowed type, nothing for any other type.
merge_rules(base, extra, allowed_types) ==
    [t \in { upper(a) : a \in allowed_types } |->
        [phrases |-> dedupe_keep_order(rules_get(base, t).phrases \o rules_get(extra, t).phrases),
         tokens |-> dedupe_keep_order(rules_get(base, t).tokens \o rules_get(extra, t).tokens)]]

\* _detect_type_from_filename_prefix: the first word of the prepared stem, in
\* upper case, when it is an allowed type; << >> stands for None.
detect_type_from_filename_prefix(filename, allowed_types) ==
    LET prepared == prep_for_search(PathStem([name |-> filename]))
        blanks == { k \in DOMAIN prepared : prepared[k] = " " }
        first == IF blanks = {} THEN prepared
                 ELSE SubSeq(prepared, 1, (CHOOSE k \in blanks : \A m \in blanks : k <= m) - 1)
    IN  IF prepared # << >> /\ upper(first) \in allowed_types THEN upper(first) ELSE << >>

\* priority_index.get(doc_type, 10**9)
priority_index(priority, doc_type) ==
    IF \E k \in DOMAIN priority : priority[k] = doc_type
    THEN (CHOOSE k \in DOMAIN priority : priority[k] = doc_type) - 1
    ELSE 1000000000

\* The keywords of a rule table in the order _best_match meets them: type by
\* type in the table's iteration order, phrases before tokens.
RECURSIVE keywords_in_order(_, _)
keywords_in_order(rules, order) ==
    IF order = << >> THEN << >>
    ELSE LET t == Head(order)
         IN  [k \in DOMAIN rules[t].phrases |->
                 [doc_type |-> t, phrase |-> TRUE, kw |-> rules[t].phrases[k]]]
             \o [k \in DOMAIN rules[t].tokens |->
                 [doc_type |-> t, phrase |-> FALSE, kw |-> rules[t].tokens[k]]]
             \o keywords_in_order(rules, Tail(order))

\* best_match_step without the priority tie-break: a keyword replaces the
\* best so far only when it scores strictly higher.
best_match_step_first_wins(best, haystack, priority, cand) ==
    LET kw2 == prep_for_search(cand.kw)
        hit == /\ kw2 # << >>
               /\ IF cand.phrase THEN contains(haystack, kw2) ELSE token_match(haystack, kw2)
        score == (IF cand.phrase THEN 100 ELSE 10) + Len(kw2)
    IN  IF hit /\ score > best.score
        THEN [score |-> score, doc_type |-> cand.doc_type, kw |-> cand.kw]
        ELSE best

\* One keyword of _best_match's loops against the best so far.
best_match_step(best, haystack, priority, cand) ==
    LET kw2 == prep_for_search(cand.kw)
        hit == /\ kw2 # << >>
               /\ IF cand.phrase THEN contains(haystack, kw2) ELSE token_match(haystack, kw2)
        score == (IF cand.phrase THEN 100 ELSE 10) + Len(kw2)
    IN  IF hit /\ (\/ score > best.score
                   \/ /\ score = best.score
                      /\ priority_index(priority, cand.doc_type)
                            < priority_index(priority, best.doc_type))
        THEN [score |-> score, doc_type |-> cand.doc_type, kw |-> cand.kw]
        ELSE best

RECURSIVE best_match_loop(_, _, _, _)
best_match_loop(best, haystack, priority, cands) ==
    IF cands = << >> THEN best
    ELSE best_match_loop(best_match_step(best, haystack, priority, Head(cands)),
                         haystack, priority, Tail(cands))

\* _best_match; `order` is the iteration order of the rule table.
best_match(haystack, rules, priority, order) ==
    best_match_loop([score |-> 0, doc_type |-> << >>, kw |-> << >>],
                    haystack, priority, keywords_in_order(rules, order))

\* The fixed priority list of classify_document (every allowed type is on it).
Priority == << << "V", "C" >>, << "P", "J" >>, << "P", "V" >>, << "R", "E", "C", "L", "A", "S", "S" >>, << "U", "J", "D" >>, << "T", "L", "L" >> >>

ContentLimit == 8000

\* classify_document that consults the content before the file name.
classify_document_content_first(filename, text, extra, order) ==
    LET by_prefix == detect_type_from_filename_prefix(filename, AllowedTypes)
        name_search == prep_for_search(filename)
        content_search ==
            prep_for_search(SubSeq(text, 1, IF Len(text) < ContentLimit
                                            THEN Len(text) ELSE ContentLimit))
        rules == merge_rules(default_rules, extra, AllowedTypes)
        cands == SelectSeq(order, LAMBDA t : t \in DOMAIN rules)
        by_name == best_match(name_search, rules, Priority, cands)
        by_content == best_match(content_search, rules, Priority, cands)
    IN  IF by_prefix # << >> THEN by_prefix
        ELSE IF by_content.score > 0 /\ by_content.doc_type # << >> THEN by_content.doc_type
        ELSE IF by_name.score > 0 /\ by_name.doc_type # << >> THEN by_name.doc_type
        ELSE UNKNOWN

\* classify_document(path, text) with the external rule file's content and the
\* iteration order of the merged table as further inputs.
classify_document(filename, text, extra, order) ==
    LET by_prefix == detect_type_from_filename_prefix(filename, AllowedTypes)
        name_search == prep_for_search(filename)
        content_search ==
            prep_for_search(SubSeq(text, 1, IF Len(text) < ContentLimit
                                            THEN Len(text) ELSE ContentLimit))
        rules == merge_rules(default_rules, extra, AllowedTypes)
        cands == SelectSeq(order, LAMBDA t : t \in DOMAIN rules)
        by_name == best_match(name_search, rules, Priority, cands)
        by_content == best_match(content_search, rules, Priority, cands)
    IN  IF by_prefix # << >> THEN by_prefix
        ELSE IF by_name.score > 0 /\ by_name.doc_type # << >> THEN by_name.doc_type
        ELSE IF by_content.score > 0 /\ by_content.doc_type # << >> THEN by_content.doc_type
        ELSE UNKNOWN

\* A type code that PROMPT_FILES does not have.
XX == << "X", "X" >>

\* _load_external_rules_json: no file, or a file with rules for a type outside
\* PROMPT_FILES, or one with further keywords for an allowed type.
ExternalRules ==
    { << >>,
      (XX :> [phrases |-> << << "x", "w", "o", "r", "d" >> >>, tokens |-> << << "x", "x" >> >>]),
      (XX :> [phrases |-> << >>, tokens |-> << << "x", "x" >> >>])
          @@ (<< "U", "J", "D" >> :> [phrases |-> << << "x", "w", "o", "r", "d" >>, << " " >> >>, tokens |-> << >>])
          @@ (<< "R", "E", "C", "L", "A", "S", "S" >> :> [phrases |-> << << "n", "i", "f", "p" >> >>, tokens |-> << >>]) }

\* Iteration orders of the merged table (a dict filled from a set of strings).
TableOrders ==
    { << << "P", "J" >>, << "P", "V" >>, << "R", "E", "C", "L", "A", "S", "S" >>, << "T", "L", "L" >>, << "U", "J", "D" >>, << "V", "C" >>, XX >>,
      << XX, << "V", "C" >>, << "U", "J", "D" >>, << "T", "L", "L" >>, << "R", "E", "C", "L", "A", "S", "S" >>, << "P", "V" >>, << "P", "J" >> >>,
      << << "R", "E", "C", "L", "A", "S", "S" >>, << "P", "V" >>, XX, << "T", "L", "L" >>, << "V", "C" >>, << "P", "J" >>, << "U", "J", "D" >> >> }

Filenames ==
    { << "P", "V", "_", "x", ".", "p", "d", "f" >>, << "x", "x", "-", "v", "c", ".", "t", "x", "t" >>, << "X", "X", "_", "1", ".", "p", "d", "f" >>, << "s", "c", "a", "n", ".", "p", "d", "f" >>, << "x", "p", "v", ".", "v", "e", "r", "h", "o", "o", "r", ".", "p" >>, << ".", "p", "j" >>,
      << "P", "V", "_", "i", "n", "t", "e", "r", "v", "i", "e", "w", "_", "0", "1", ".", "p", "d", "f" >>,
      << "d", "o", "s", "s", "i", "e", "r", "_", "s", "c", "a", "n", ".", "p", "d", "f" >>,
      << "v", "c", ".", "p", "j", "_", "n", "i", "f", "p", ".", "t", "x", "t" >> }

Contents ==
    { << >>, << " " >>, << "V", "e", "r", "h", "o", "o", "r", " ", "R", "a", "a", "d", "k", "a", "m", "e", "r" >>, << "x", "x", " ", "x", "w", "o", "r", "d" >>, << "u", "p", "v", "\n", "p", "j", "." >>, << "n", "i", "f", "p", "x", " ", "x", "x" >>,
      << "p", "v", " ", "v", "c", " ", "p", "j" >>,
      << "H", "e", "t", " ", "R", "e", "c", "l", "a", "s", "s", "e", "r", "i", "n", "g", "s", "r", "a", "p", "p", "o", "r", "t", "\t", "v", "a", "n", " ", "p", "j" >> }

\* _best_match on the merged table, as classify_document calls it.
CallBestMatch ==
    /\ fn_args.fn = "best_match"
    /\ fn_result = NoCall
    /\ LET rules == merge_rules(default_rules, fn_args.extra, AllowedTypes)
           cands == SelectSeq(fn_args.order, LAMBDA t : t \in DOMAIN rules)
       IN  fn_result' =
               [fn |-> "best_match",
                value |-> best_match(fn_args.haystack, rules, Priority, cands)]
    /\ UNCHANGED << program, fn_args, engine >>

CallClassifyDocument ==
    /\ fn_args.fn = "classify_document"
    /\ fn_result = NoCall
    /\ fn_result' =
           [fn |-> "classify_document",
            value |-> classify_document(fn_args.filename, fn_args.text,
                                        fn_args.extra, fn_args.order)]
    /\ UNCHANGED << program, fn_args, engine >>

\* ----------------- UI/dossier_documents_window.py: _on_worker_finished
\* SummaryState(): no artifact location and no timestamp (0 is None).
NoPath == [stem |-> << >>, ext |-> ""]

NoSummary == [txt_path |-> NoPath, json_path |-> NoPath, updated_at |-> 0]

\* _on_worker_finished that records the outcome but not where the summary is.
on_worker_finished_summary_forgotten(docs, id, now) ==
    [i \in DOMAIN docs |->
        [on_worker_finished(docs, id)[i] EXCEPT !.summary = docs[i].summary]]

\* What _on_worker_finished writes into the document: the status and the
\* cleared error text (on_worker_finished) and, in doc.summary, the two
\* artifact locations and the time of the call.
on_worker_finished_summary(docs, id, now) ==
    LET i == IndexOf(docs, id)
        paths == summary_paths_for_doc(docs[i])
    IN  [on_worker_finished(docs, id) EXCEPT
            ![i].summary = [txt_path |-> paths.txt, json_path |-> paths.json,
                            updated_at |-> now]]

\* The slot _on_worker_finished as a whole: it returns at once when no
\* document is current or the current one is not in the ledger; otherwise it
\* writes the document, saves the manifest, clears current_doc_id and only
\* then arms the timer of start_auto_summarization.
on_worker_finished_slot(docs, current_doc_id, created, now) ==
    IF current_doc_id = 0 \/ current_doc_id \notin DocIds(docs)
    THEN [documents |-> docs, saved |-> FALSE, manifest |-> NoManifest,
          current_doc_id |-> current_doc_id, timers |-> 0]
    ELSE LET newdocs == on_worker_finished_summary(docs, current_doc_id, now)
         IN  [documents |-> newdocs, saved |-> TRUE, manifest |-> to_dict(newdocs, created),
              current_doc_id |-> 0, timers |-> 1]

\* The summary records a document may carry when the slot runs: none, or the
\* one of an earlier completion at time 1.
EarlierSummaries(p) ==
    { NoSummary,
      [txt_path |-> summary_paths_for_doc([source_path |-> p]).txt,
       json_path |-> summary_paths_for_doc([source_path |-> p]).json,
       updated_at |-> 1] }

\* The ledgers the slot may find: any persisted ledger, each document with or
\* without an earlier summary record.
LedgersWithSummaries ==
    UNION { { [i \in DOMAIN docs |->
                 [doc_id |-> docs[i].doc_id,
                  source_path |-> docs[i].source_path,
                  selected |-> docs[i].selected,
                  status |-> docs[i].status,
                  summary |-> IF earlier[i] THEN CHOOSE x \in EarlierSummaries(docs[i].source_path) : x # NoSummary
                              ELSE NoSummary,
                  error_message |-> docs[i].error_message]] :
              earlier \in [DOMAIN docs -> BOOLEAN] } :
            docs \in { d \in PersistedLedgers :
                         \A i \in DOMAIN d :
                             d[i].status \in { DOC_STATUS_QUEUED, DOC_STATUS_SUMMARIZING,
                                               DOC_STATUS_SUMMARIZED } } }

CallOnWorkerFinished ==
    /\ fn_args.fn = "on_worker_finished"
    /\ fn_result = NoCall
    /\ fn_result' =
           [fn |-> "on_worker_finished",
            value |-> on_worker_finished_slot(fn_args.documents, fn_args.current_doc_id,
                                              1, fn_args.now)]
    /\ UNCHANGED << program, fn_args, engine >>

\* ------------------------------------------- the functions, as called
\* The calls of the pure functions: one call per behaviour, its arguments
\* drawn from the bounded input sets.
FunctionCalls ==
    { [fn |-> "manifest", state |-> m] : m \in ManifestStates }
    \cup { [fn |-> "final_type", doc |-> [detected_type |-> d, type_override |-> << >>]] :
             d \in (DOC_TYPE_OPTIONS \cup { << >> }) }
    \cup { [fn |-> "chunk", text |-> t, max_chars |-> c] :
             t \in TextsUpTo(MaxTextLen), c \in 1..MaxChunkSize }
    \cup { [fn |-> "summarize_document", length |-> n, period |-> k] :
             n \in { 1, 1800, 1801, 5400, 7200, 7300, 9000, 10801, 12600, ScenarioChars },
             k \in { 0, 1100, 1500, 1800 } }
    \cup { [fn |-> "classify_document", filename |-> f, text |-> t, extra |-> x, order |-> o] :
             f \in Filenames, t \in Contents, x \in ExternalRules, o \in TableOrders }
    \cup { [fn |-> "best_match", haystack |-> h, extra |-> x, order |-> o] :
             h \in { prep_for_search(y) : y \in Filenames \cup Contents },
             x \in ExternalRules, o \in TableOrders }
    \cup { [fn |-> "on_worker_finished", documents |-> docs, current_doc_id |-> id, now |-> 2] :
             docs \in LedgersWithSummaries, id \in 0..NDocs }

InitFunctions ==
    /\ proc = "running"
    /\ screen = "ingest"
    /\ model_present = TRUE
    /\ model_status = "ready"
    /\ stale_downloads = 0
    /\ documents = << >>
    /\ archive_created_at = 0
    /\ manifest = NoManifest
    /\ summary_files = {}
    /\ windows = << >>
    /\ lock = 0
    /\ commits = 0
    /\ exits = 0
    /\ ever_summarized = {}
    /\ forced_from_queued = {}
    /\ resume_reset = {}
    /\ summary_writers = {}
    /\ fn_args \in FunctionCalls
    /\ fn_result = NoCall
    /\ InitEngine

NextFunctions ==
    \/ CallManifestRoundTrip
    \/ \E currentData \in DOC_TYPE_OPTIONS : ApplyTypeBox(currentData)
    \/ CallFinalType
    \/ CallChunk
    \/ CallSummarizeDocument
    \/ CallClassifyDocument
    \/ CallBestMatch
    \/ CallOnWorkerFinished

SpecFunctions == InitFunctions /\ [][NextFunctions]_vars

\* What one call of _generate does: it returns text or raises with a message.
Outcomes ==
    { [raised |-> FALSE, msg |-> << >>] }
    \cup { [raised |-> TRUE, msg |-> m] : m \in
        { << "e", "x", "c", "e", "e", "d", "e", "d", " ", "m", "a", "x", "i", "m", "u", "m", " ", "c", "o", "n", "t", "e", "x", "t", " ", "l", "e", "n", "g", "t", "h", " ", "(", "5", "1", "2", ")" >>,
          << "m", "a", "x", "i", "m", "u", "m", " ", "c", "o", "n", "t", "e", "x", "t", " ", "l", "e", "n", "g", "t", "h", " ", "1", "0", "2", "4" >>,
          << "e", "x", "c", "e", "e", "d", "e", "d", " ", "m", "a", "x", "i", "m", "u", "m", " ", "c", "o", "n", "t", "e", "x", "t", " ", "l", "e", "n", "g", "t", "h" >>,
          << "t", "o", "k", "e", "n", "s", " ", "(", "2", "5", "1", "2", ")", " ", "e", "x", "c", "e", "e", "d", "e", "d", " ", "m", "a", "x", "i", "m", "u", "m", " ", "c", "o", "n", "t", "e", "x", "t", " ", "l", "e", "n", "g", "t", "h", " ", "(", "2", "0", "4", "8", ")" >>,
          << "o", "u", "t", " ", "o", "f", " ", "m", "e", "m", "o", "r", "y" >> } }

\* "maximum context length" in msg or "exceeded maximum context length" in msg
is_context_overflow(msg) ==
    \/ contains(msg, << "m", "a", "x", "i", "m", "u", "m", " ", "c", "o", "n", "t", "e", "x", "t", " ", "l", "e", "n", "g", "t", "h" >>)
    \/ contains(msg, << "e", "x", "c", "e", "e", "d", "e", "d", " ", "m", "a", "x", "i", "m", "u", "m", " ", "c", "o", "n", "t", "e", "x", "t", " ", "l", "e", "n", "g", "t", "h" >>)

\* The budget the except branch of Map falls back to; the budget in force is
\* not read.
fallback_ctx(msg) ==
    IF contains(msg, << "5", "1", "2" >>) THEN 512
    ELSE IF contains(msg, << "1", "0", "2", "4" >>) THEN 1024
    ELSE 768

MaxChunks == 5   \* chunks of one document

MaxCalls == 2    \* calls of summarize_document in one process

\* Map is over: the cap, then Reduce while more than one partial is left.
after_map(c, partials) ==
    LET kept == IF partials > AGGREGATE_MAX_PARTIALS THEN AGGREGATE_MAX_PARTIALS ELSE partials
    IN  [c EXCEPT !.chunks = 0, !.partials = kept, !.grouped = 0,
                  !.pc = IF kept > 1 THEN "reduce" ELSE "returned"]

\* One partial has been appended in Map.
after_partial(c) ==
    IF c.chunks = 1 THEN after_map(c, c.partials + 1)
    ELSE [c EXCEPT !.pc = "map", !.chunks = @ - 1, !.partials = @ + 1]

\* summarize_document is called with a text of n chunks; without chunks it
\* returns "Geen tekst aangetroffen." at once.
SummarizeBegin(n) ==
    /\ call.pc \in { "idle", "returned", "raised" }
    /\ call.calls < MaxCalls
    /\ call' = [pc |-> IF n = 0 THEN "returned" ELSE "map",
                target_ctx |-> effective_ctx, chunks |-> n, partials |-> 0, grouped |-> 0,
                max_new |-> MAX_NEW_TOKENS, err |-> << >>, calls |-> call.calls + 1]
    /\ UNCHANGED << program, fn_args, fn_result, effective_ctx >>

\* Map, the try: _generate(prompt) for the next chunk. On a context overflow
\* the budget falls back and the chunk is up for its retry; any other
\* exception leaves summarize_document.
MapGenerate(o) ==
    /\ call.pc = "map"
    /\ IF ~o.raised
       THEN /\ call' = after_partial([call EXCEPT !.max_new = MAX_NEW_TOKENS])
            /\ UNCHANGED effective_ctx
       ELSE IF is_context_overflow(o.msg)
       THEN /\ effective_ctx' = fallback_ctx(o.msg)
            /\ call' = [call EXCEPT !.pc = "retry",
                                    !.target_ctx = fallback_ctx(o.msg),
                                    !.max_new = (IF 140 < MAX_NEW_TOKENS THEN 140 ELSE MAX_NEW_TOKENS)]
       ELSE /\ call' = [call EXCEPT !.pc = "raised", !.err = o.msg]
            /\ UNCHANGED effective_ctx
    /\ UNCHANGED << program, fn_args, fn_result >>

\* Map, the except branch: the refitted prompt is generated once more, inside
\* no further try.
MapRetry(o) ==
    /\ call.pc = "retry"
    /\ call' = IF o.raised THEN [call EXCEPT !.pc = "raised", !.err = o.msg]
               ELSE after_partial(call)
    /\ UNCHANGED << program, fn_args, fn_result, effective_ctx >>

\* Reduce: _reduce_group for the next group of the pass; its _generate is
\* inside no try. A pass that ends replaces the partials by its groups.
ReduceGenerate(o) ==
    /\ call.pc = "reduce"
    /\ LET groups == (call.partials + AGGREGATE_GROUP_SIZE - 1) \div AGGREGATE_GROUP_SIZE
       IN  call' =
               IF o.raised THEN [call EXCEPT !.pc = "raised", !.err = o.msg]
               ELSE IF call.grouped + 1 < groups
               THEN [call EXCEPT !.grouped = @ + 1, !.max_new = MAX_NEW_TOKENS]
               ELSE [call EXCEPT !.partials = groups, !.grouped = 0,
                                 !.max_new = MAX_NEW_TOKENS,
                                 !.pc = IF groups > 1 THEN "reduce" ELSE "returned"]
    /\ UNCHANGED << program, fn_args, fn_result, effective_ctx >>

NextSummarizer ==
    \/ \E n \in 0..MaxChunks : SummarizeBegin(n)
    \/ \E o \in Outcomes : MapGenerate(o)
    \/ \E o \in Outcomes : MapRetry(o)
    \/ \E o \in Outcomes : ReduceGenerate(o)

SpecSummarizer == Init /\ [][NextSummarizer]_vars

\* ------------------------------------------------------------------ claims
\* No timer is pending, no worker thread runs and no worker signal is queued:
\* the program takes no further step until the user acts.
Quiescent ==
    /\ proc = "running"
    /\ \A w \in DOMAIN windows :
          /\ windows[w].timers = 0
          /\ ~isRunning(windows[w].worker)
          /\ windows[w].worker.sig = "none"

\* The documents a step claims: the ones it moves into summarizing.
ClaimedByStep ==
    { documents[i].doc_id : i \in { j \in DOMAIN documents \cap DOMAIN documents' :
        /\ documents[j].status # DOC_STATUS_SUMMARIZING
        /\ documents'[j].status = DOC_STATUS_SUMMARIZING } }

\* The model runtime calls in flight: downloads by ModelDownloadWorker threads
\* and SummarizationWorker threads inside ensure_model_ready or summarize_document.
RuntimeCallsInFlight ==
    stale_downloads
    + (IF model_status = "downloading" THEN 1 ELSE 0)
    + Cardinality({ w \in DOMAIN windows : windows[w].worker.pc \in {"ensure", "summarize"} })

\* C1: in every reachable state of a case at most one document has status
\* summarizing, whatever the interleaving of window opening, resume clicks,
\* re-commits, worker callbacks, timers and go-back.
C1_AtMostOneSummarizing ==
    Cardinality(WithStatus(documents, DOC_STATUS_SUMMARIZING)) <= 1

\* C2: at most one call into the model runtime, the model download included,
\* is in flight at any moment across the process.
C2_OneRuntimeCallInFlight ==
    RuntimeCallsInFlight <= 1

\* C3: a document that has held status summarized is never claimed again
\* (never summarizing again, no second worker), whatever restarts, resume
\* clicks, go-backs and re-commits follow.
C3_SummarizedNeverReclaimed ==
    \A i \in DOMAIN documents :
        documents[i].doc_id \in ever_summarized
            => documents[i].status # DOC_STATUS_SUMMARIZING

\* The archive was committed again over a summarized document, and the new
\* window's start_auto_summarization has run and claimed nothing.
C3_Witness ==
    /\ proc = "running"
    /\ Len(windows) = 2
    /\ windows[2].timers = 0
    /\ windows[2].worker = NoWorker
    /\ \E i \in DOMAIN documents :
          /\ documents[i].doc_id \in ever_summarized \cap forced_from_queued
          /\ documents[i].selected
          /\ documents[i].status = DOC_STATUS_SUMMARIZED

\* C4: every document of a committed case ends as summarized, error or
\* skipped on every exit path of the worker: once the program has no step
\* left to take, no document is queued or summarizing.
C4_EveryDocumentEnds ==
    (Quiescent /\ archive_created_at # 0) =>
        \A i \in DOMAIN documents :
            documents[i].status \in
                {DOC_STATUS_SUMMARIZED, DOC_STATUS_ERROR, DOC_STATUS_SKIPPED}

\* C5: an error on one document never halts the batch: the program does not
\* come to rest with a document in error while another is still queued.
C5_ErrorDoesNotHaltBatch ==
    Quiescent =>
        ~ /\ WithStatus(documents, DOC_STATUS_ERROR) # {}
          /\ WithStatus(documents, DOC_STATUS_QUEUED) # {}

\* C6: the manifest on disk is never a partially written file, also when the
\* process ends during save_manifest.
C6_ManifestNeverPartial ==
    manifest.kind # "partial"

\* A ledger is a fixed point of _normalize_resume_state, which would not set
\* `changed` (so would not save) on it.
Normalized(docs, files) ==
    /\ normalize_resume_state(docs, files) = docs
    /\ ~normalize_changed(docs, files)

\* C7: resume-normalization is idempotent: on the ledger a normalization
\* leaves, with the same summary files, a second normalization changes no
\* document and writes no manifest.
C7_NormalizeIdempotent ==
    [][Restart => Normalized(documents', summary_files')]_vars

\* A normalization that requeued an interrupted document and forced another
\* to summarized.
C7_Witness ==
    /\ proc = "running"
    /\ resume_reset # {}
    /\ forced_from_queued # {}
    /\ manifest = to_dict(documents, archive_created_at)

\* C8: a selected document persisted as summarizing, with no summary files,
\* is queued after the restart's normalization, and it is the document the
\* next claim takes.
C8_InterruptedIsClaimedNext ==
    [][ /\ Restart =>
              \A i \in DOMAIN documents' :
                  documents'[i].doc_id \in resume_reset'
                      => documents'[i].status = DOC_STATUS_QUEUED
        /\ (resume_reset # {} /\ ClaimedByStep # {}) => resume_reset = ClaimedByStep
      ]_vars

\* C9: a selected document that is queued while its summary files exist is
\* summarized after a normalization, and is never claimed afterwards.
C9_StaleQueuedIsSummarized ==
    [][ /\ Restart =>
              \A i \in DOMAIN documents' :
                  documents'[i].doc_id \in StaleQueued(manifest.documents, summary_files)
                      => documents'[i].status = DOC_STATUS_SUMMARIZED
        /\ \A w \in DOMAIN windows : OnResumeClicked(w) =>
              \A i \in DOMAIN documents' :
                  documents'[i].doc_id \in StaleQueued(documents, summary_files)
                      => documents'[i].status = DOC_STATUS_SUMMARIZED
        /\ \A sel \in [DOMAIN documents -> BOOLEAN] : CreateCaseArchive(sel) =>
              \A i \in DOMAIN documents' :
                  documents'[i].doc_id \in
                      StaleQueued(mark_archive_created_and_queue_selected(
                                      apply_selection(documents, sel)), summary_files)
                      => documents'[i].status = DOC_STATUS_SUMMARIZED
        /\ \A i \in DOMAIN documents' :
              documents'[i].doc_id \in forced_from_queued'
                  => documents'[i].status # DOC_STATUS_SUMMARIZING
      ]_vars

\* A document a normalization found queued with its summary files on disk.
C9_Witness ==
    /\ proc = "running"
    /\ \E i \in DOMAIN documents :
          /\ documents[i].doc_id \in forced_from_queued
          /\ documents[i].status = DOC_STATUS_SUMMARIZED

\* C10: in every reachable state each document with selected = false has
\* status skipped.
C10_UnselectedIsSkipped ==
    \A i \in DOMAIN documents :
        ~documents[i].selected => documents[i].status = DOC_STATUS_SKIPPED

\* C11: every change of a document's status, by a handler of the running
\* process or by the normalization of a reopened case, is a lifecycle
\* transition: detected/extracted -> queued, queued -> summarizing,
\* summarizing -> summarized | error, error -> queued, any -> skipped for an
\* unselected document, any -> summarized while summary files exist, and
\* summarizing -> queued.
C11_OnlyLifecycleTransitions ==
    [][ LET Lifecycle(old, new, doc, files) ==
                \/ old = new
                \/ old \in {DOC_STATUS_DETECTED, DOC_STATUS_EXTRACTED} /\ new = DOC_STATUS_QUEUED
                \/ old = DOC_STATUS_QUEUED /\ new = DOC_STATUS_SUMMARIZING
                \/ old = DOC_STATUS_SUMMARIZING
                      /\ new \in {DOC_STATUS_SUMMARIZED, DOC_STATUS_ERROR, DOC_STATUS_QUEUED}
                \/ old = DOC_STATUS_ERROR /\ new = DOC_STATUS_QUEUED
                \/ new = DOC_STATUS_SKIPPED /\ ~doc.selected
                \/ new = DOC_STATUS_SUMMARIZED /\ doc.selected /\ HasSummaryFile(doc, files)
        IN  /\ (proc = "running" /\ proc' = "running") =>
                  \A i \in DOMAIN documents :
                      Lifecycle(documents[i].status, documents'[i].status,
                                documents'[i], summary_files')
            /\ Restart =>
                  \A i \in DOMAIN documents' :
                      Lifecycle(manifest.documents[i].status, documents'[i].status,
                                documents'[i], summary_files')
      ]_vars

\* C12: once archive_created_at is set, no handler of the running process
\* changes it.
C12_ArchiveCreatedAtSetOnce ==
    [][ (proc = "running" /\ proc' = "running" /\ archive_created_at # 0)
            => archive_created_at' = archive_created_at ]_vars

\* C13: a window whose _stop_worker has requested interruption of its running
\* worker starts no further worker: it claims no document afterwards.
C13_NoClaimAfterCancellation ==
    [][ \A w \in DOMAIN windows \cap DOMAIN windows' :
            windows[w].interruption_requested =>
                (windows'[w].worker.pc = "start" => windows[w].worker.pc = "start") ]_vars

\* C14: the manifest round trip loses nothing: from_dict(to_dict(m)) equals m,
\* and load_manifest returns the state save_manifest wrote, on every field.
C14_ManifestRoundTrip ==
    fn_result.fn = "manifest" =>
        /\ fn_result.from_to = fn_args.state
        /\ fn_result.loaded = fn_result.saved

\* A round trip of a state with a document, a null path and a present path.
C14_Witness ==
    /\ fn_result.fn = "manifest"
    /\ fn_args.state.documents # << >>
    /\ fn_args.state.model.path = None
    /\ fn_args.state.case.case_dir = Path("")
    /\ fn_args.state.documents[1].summary.txt_path # None

\* C15: final_type() is type_override when that is non-empty and differs from
\* detected_type, and detected_type otherwise.
C15_FinalType ==
    fn_result.fn = "final_type" =>
        fn_result.value =
            IF fn_args.doc.type_override # << >>
               /\ fn_args.doc.type_override # fn_args.doc.detected_type
            THEN fn_args.doc.type_override
            ELSE fn_args.doc.detected_type

\* final_type() of a document whose override differs from a detected type.
C15_Witness ==
    /\ fn_result.fn = "final_type"
    /\ fn_args.doc.detected_type # << >>
    /\ fn_args.doc.type_override # << >>
    /\ fn_args.doc.type_override # fn_args.doc.detected_type

\* C17: for every non-empty text and chunk size of at least 1, _chunk
\* terminates, its chunks in order hold every non-whitespace character of the
\* text exactly once and in the original order, and no chunk is longer than
\* the chunk size.
C17_ChunkCovers ==
    (fn_result.fn = "chunk" /\ fn_args.text # << >>) =>
        /\ fn_result.value.terminated
        /\ non_whitespace(join(fn_result.value.out)) = non_whitespace(fn_args.text)
        /\ \A k \in DOMAIN fn_result.value.out :
              Len(fn_result.value.out[k]) <= fn_args.max_chars

\* A text longer than the chunk size whose first window was cut at a newline.
C17_Witness ==
    /\ fn_result.fn = "chunk"
    /\ Len(strip(fn_args.text)) > fn_args.max_chars
    /\ Len(piece_at(strip(fn_args.text), 0, fn_args.max_chars)) < fn_args.max_chars
    /\ Len(fn_result.value.out) >= 2

\* C18 as stated: Reduce ends with exactly one summary, and the document of
\* 20,000 characters yields 11 or 12 chunks, at most 11 partials into Reduce
\* and 2 rounds of Reduce.
C18_ReduceScenario ==
    fn_result.fn = "summarize_document" =>
        /\ fn_result.value.terminated
        /\ fn_result.value.summaries = 1
        /\ fn_args.length = ScenarioChars =>
              /\ fn_result.value.chunks \in 11..12
              /\ fn_result.value.partials <= 11
              /\ fn_result.value.rounds = 2

\* C18 amended: Reduce ends with exactly one summary; the document of 20,000
\* characters yields 12 chunks when no window is cut at a newline and up to 19
\* when windows are cut, AGGREGATE_MAX_PARTIALS (6) partials enter Reduce, and
\* Reduce with group size 4 takes 2 rounds.
C18_ReduceScenarioAmended ==
    fn_result.fn = "summarize_document" =>
        /\ fn_result.value.terminated
        /\ fn_result.value.summaries = 1
        /\ fn_result.value.partials <= AGGREGATE_MAX_PARTIALS
        /\ fn_args.length = ScenarioChars =>
              /\ fn_result.value.chunks \in 12..19
              /\ fn_args.period = 0 => fn_result.value.chunks = 12
              /\ fn_result.value.partials = AGGREGATE_MAX_PARTIALS
              /\ fn_result.value.rounds = 2

\* The long document with windows cut at newlines, summarized.
C18_Witness ==
    /\ fn_result.fn = "summarize_document"
    /\ fn_args.length = ScenarioChars
    /\ fn_args.period # 0
    /\ fn_result.value.chunks > 12
    /\ fn_result.value.rounds = 2

\* C16: for every file name, text and external rule file, classify_document
\* returns an allowed type or "UNKNOWN"; a rule for a type outside the
\* allowed set is never the answer.
C16_ClassifyInAllowedTypes ==
    fn_result.fn = "classify_document" =>
        fn_result.value \in AllowedTypes \cup { UNKNOWN }

\* A document whose name or text matches a keyword of an external rule for a
\* type outside the allowed set, classified.
C16_Witness ==
    /\ fn_result.fn = "classify_document"
    /\ XX \in DOMAIN fn_args.extra
    /\ \/ token_match(prep_for_search(fn_args.filename), prep_for_search(fn_args.extra[XX].tokens[1]))
       \/ token_match(prep_for_search(fn_args.text), prep_for_search(fn_args.extra[XX].tokens[1]))
    /\ fn_result.value = UNKNOWN

\* C19: no document with selected = false is ever claimed: every step of the
\* running application that moves a document into summarizing leaves that
\* document selected.
C19_UnselectedNeverClaimed ==
    [][ (proc = "running" /\ proc' = "running") =>
            \A i \in DOMAIN documents \cap DOMAIN documents' :
                (documents[i].status # DOC_STATUS_SUMMARIZING
                 /\ documents'[i].status = DOC_STATUS_SUMMARIZING)
                    => documents'[i].selected ]_vars

\* C20: while a SummarizationWorker is processing a document, the manifest on
\* disk is complete and shows that document as summarizing.
C20_ManifestShowsSummarizing ==
    proc = "running" =>
        \A w \in DOMAIN windows :
            isRunning(windows[w].worker) =>
                /\ manifest.kind = "full"
                /\ \E i \in DOMAIN manifest.documents :
                      /\ manifest.documents[i].doc_id = windows[w].worker.doc_id
                      /\ manifest.documents[i].status = DOC_STATUS_SUMMARIZING

\* C21: summarization begins only after the archive is committed: no document
\* has status summarizing while the case's archive_created_at is unset, also
\* when an uncommitted case is opened from the cases list.
C21_NoClaimBeforeCommit ==
    proc = "running" =>
        \A i \in DOMAIN documents :
            documents[i].status = DOC_STATUS_SUMMARIZING => archive_created_at # 0

C23_SummaryRecordedAndPersisted ==
    (fn_result.fn = "on_worker_finished"
     /\ fn_args.current_doc_id \in DocIds(fn_args.documents)) =>
        LET i == IndexOf(fn_args.documents, fn_args.current_doc_id)
            before == fn_args.documents
            after == fn_result.value.documents
        IN  /\ after[i].status = DOC_STATUS_SUMMARIZED
            /\ after[i].summary.txt_path = summary_paths_for_doc(before[i]).txt
            /\ after[i].summary.json_path = summary_paths_for_doc(before[i]).json
            /\ after[i].summary.updated_at = fn_args.now
            /\ after[i].summary.updated_at > before[i].summary.updated_at
            /\ after[i].error_message = ""
            /\ \A j \in DOMAIN before : j # i => after[j] = before[j]
            /\ fn_result.value.timers > 0 =>
                  /\ fn_result.value.saved
                  /\ fn_result.value.manifest.kind = "full"
                  /\ fn_result.value.manifest.documents = after

\* The slot has run for a summarizing document that carried an error text and
\* the summary record of an earlier completion.
C23_Witness ==
    /\ fn_result.fn = "on_worker_finished"
    /\ fn_args.current_doc_id \in DocIds(fn_args.documents)
    /\ LET d == DocById(fn_args.documents, fn_args.current_doc_id)
       IN  /\ d.status = DOC_STATUS_SUMMARIZING
           /\ d.error_message # ""
           /\ d.summary.updated_at = 1
    /\ fn_result.value.timers = 1

\* C24: _best_match returns the type that owns the highest-scoring matching
\* keyword, a phrase found in the haystack scoring 100 + its length and a token
\* found as a word 10 + its length (lengths of the keyword as searched for);
\* among the types with that top score the earliest in the priority list wins,
\* whatever the iteration order of the rule table; with no match the score is 0
\* and the type empty.
C24_BestMatchDeterministic ==
    fn_result.fn = "best_match" =>
        LET rules == merge_rules(default_rules, fn_args.extra, AllowedTypes)
            h == fn_args.haystack
            PhraseScores(t) ==
                { 100 + Len(prep_for_search(rules[t].phrases[k])) :
                    k \in { n \in DOMAIN rules[t].phrases :
                              /\ prep_for_search(rules[t].phrases[n]) # << >>
                              /\ contains(h, prep_for_search(rules[t].phrases[n])) } }
            TokenScores(t) ==
                { 10 + Len(prep_for_search(rules[t].tokens[k])) :
                    k \in { n \in DOMAIN rules[t].tokens :
                              /\ prep_for_search(rules[t].tokens[n]) # << >>
                              /\ token_match(h, prep_for_search(rules[t].tokens[n])) } }
            Scores(t) == PhraseScores(t) \cup TokenScores(t)
            all == UNION { Scores(t) : t \in DOMAIN rules }
            top == CHOOSE x \in all : \A y \in all : y <= x
            winners == { t \in DOMAIN rules : top \in Scores(t) }
            Rank(t) == CHOOSE k \in DOMAIN Priority : Priority[k] = t
        IN  IF all = {}
            THEN fn_result.value.score = 0 /\ fn_result.value.doc_type = << >>
            ELSE /\ fn_result.value.score = top
                 /\ fn_result.value.doc_type \in winners
                 /\ \A t \in winners : Rank(fn_result.value.doc_type) <= Rank(t)

\* _best_match has run on a haystack in which keywords of two types reach the
\* same top score, with the type that loses the tie first in the iteration.
C24_Witness ==
    /\ fn_result.fn = "best_match"
    /\ fn_result.value.score > 0
    /\ LET rules == merge_rules(default_rules, fn_args.extra, AllowedTypes)
           loser == Head(SelectSeq(fn_args.order, LAMBDA t : t \in DOMAIN rules))
           kws == [t \in DOMAIN rules |->
                      { prep_for_search(rules[t].phrases[k]) : k \in DOMAIN rules[t].phrases }
                      \cup { prep_for_search(rules[t].tokens[k]) : k \in DOMAIN rules[t].tokens }]
       IN  /\ loser # fn_result.value.doc_type
           /\ \E kw \in kws[loser] :
                 /\ kw # << >>
                 /\ Len(kw) = Len(prep_for_search(fn_result.value.kw))
                 /\ contains(fn_args.haystack, kw)
                 /\ (kw \in { prep_for_search(rules[loser].phrases[k]) :
                                 k \in DOMAIN rules[loser].phrases })
                    = (100 < fn_result.value.score)
                 /\ (100 < fn_result.value.score \/ token_match(fn_args.haystack, kw))

\* C25: classify_document consults its signals in strict precedence: the first
\* word of the normalized file-name stem when it is an allowed type code; else,
\* when a keyword matches the normalized file name, the best match there
\* whatever the content; else the best match in the content; else "UNKNOWN".
C25_ClassifyPrecedence ==
    fn_result.fn = "classify_document" =>
        LET rules == merge_rules(default_rules, fn_args.extra, AllowedTypes)
            Scores(h, t) ==
                { 100 + Len(prep_for_search(rules[t].phrases[k])) :
                    k \in { n \in DOMAIN rules[t].phrases :
                              /\ prep_for_search(rules[t].phrases[n]) # << >>
                              /\ contains(h, prep_for_search(rules[t].phrases[n])) } }
                \cup
                { 10 + Len(prep_for_search(rules[t].tokens[k])) :
                    k \in { n \in DOMAIN rules[t].tokens :
                              /\ prep_for_search(rules[t].tokens[n]) # << >>
                              /\ token_match(h, prep_for_search(rules[t].tokens[n])) } }
            All(h) == UNION { Scores(h, t) : t \in DOMAIN rules }
            Winners(h) ==
                { t \in DOMAIN rules :
                    \E x \in Scores(h, t) : \A y \in All(h) : y <= x }
            Rank(t) == CHOOSE k \in DOMAIN Priority : Priority[k] = t
            Best(h) == CHOOSE t \in Winners(h) : \A u \in Winners(h) : Rank(t) <= Rank(u)
            stem == prep_for_search(PathStem([name |-> fn_args.filename]))
            word_end == IF \E k \in DOMAIN stem : stem[k] = " "
                        THEN (CHOOSE k \in DOMAIN stem :
                                 stem[k] = " " /\ \A m \in 1..(k - 1) : stem[m] # " ") - 1
                        ELSE Len(stem)
            first == upper(SubSeq(stem, 1, word_end))
            name == prep_for_search(fn_args.filename)
            content == prep_for_search(fn_args.text)
        IN  fn_result.value =
                IF first \in AllowedTypes THEN first
                ELSE IF All(name) # {} THEN Best(name)
                ELSE IF All(content) # {} THEN Best(content)
                ELSE UNKNOWN

\* dossier_scan.pdf holding "reclasseringsrapport" has been classified RECLASS
\* by its content.
C25_Witness ==
    /\ fn_result.fn = "classify_document"
    /\ fn_args.filename = << "d", "o", "s", "s", "i", "e", "r", "_", "s", "c", "a", "n", ".", "p", "d", "f" >>
    /\ contains(prep_for_search(fn_args.text), << "r", "e", "c", "l", "a", "s", "s", "e", "r", "i", "n", "g", "s", "r", "a", "p", "p", "o", "r", "t" >>)
    /\ fn_result.value = << "R", "E", "C", "L", "A", "S", "S" >>

\* C26: a context overflow in Map leaves a budget strictly smaller than the
\* one in force when it occurred, whatever that budget and the message, and
\* the chunk is retried with a reduced output-length cap.
C26_OverflowShrinksBudget ==
    [][(call.pc = "map" /\ call'.pc = "retry") =>
          /\ call'.target_ctx < call.target_ctx
          /\ effective_ctx' = call'.target_ctx
          /\ call'.max_new < MAX_NEW_TOKENS]_vars

\* C27: a context overflow raised by the model leaves summarize_document only
\* when it is raised by the retry that follows a budget reduction.
C27_OverflowRecoveredLocally ==
    [][(call'.pc = "raised" /\ call.pc # "raised" /\ is_context_overflow(call'.err)) =>
          call.pc = "retry"]_vars

\* C28: resume-normalization marks a document summarized on the strength of
\* summary files only when the worker of that very document has written them,
\* also when two documents of the case share the stem of their file names.
C28_SummaryFilesProveTheirOwnDocument ==
    [][/\ (proc = "running" /\ proc' = "running") =>
              \A i \in DOMAIN documents \cap DOMAIN documents' :
                  (/\ documents[i].status # DOC_STATUS_SUMMARIZED
                   /\ normalize_branch(documents[i], summary_files) = "summarized"
                   /\ documents'[i].status = DOC_STATUS_SUMMARIZED)
                      => documents[i].doc_id \in summary_writers'
       /\ Restart =>
              \A i \in DOMAIN documents' :
                  (/\ from_dict(manifest).documents[i].status # DOC_STATUS_SUMMARIZED
                   /\ documents'[i].status = DOC_STATUS_SUMMARIZED)
                      => documents'[i].doc_id \in summary_writers]_vars

\* C29: every run of a SummarizationWorker emits one terminal signal, finished
\* or error, before it ends: no run() returns from anywhere but its emit.
C29_OneTerminalSignalPerRun ==
    [][\A w \in DOMAIN windows \cap DOMAIN windows' :
          (isRunning(windows[w].worker) /\ ~isRunning(windows'[w].worker)) =>
              windows[w].worker.pc = "returning"]_vars

\* C30: at most one SummarizationWorker thread of the case is alive at any
\* time, and no document is in the hands of two workers at once, also after a
\* window was closed with its worker running and the archive re-committed.
C30_AtMostOneWorkerAlive ==
    /\ Cardinality({ w \in DOMAIN windows : isRunning(windows[w].worker) }) <= 1
    /\ \A v, w \in DOMAIN windows :
          (/\ v # w
           /\ windows[v].worker.doc_id # 0
           /\ windows[v].worker.doc_id = windows[w].worker.doc_id) =>
              ~(isRunning(windows[v].worker) /\ isRunning(windows[w].worker))

====
